---- MODULE Spec2Model ----
(***************************************************************************)
(* Model of the keyframe timeline engine of HorticulturalLEDDesigner.tsx   *)
(* (multi-day component, lines 119-1041): the keyframe store, the timeline *)
(* sampler and the schedule state they work on.                            *)
(*                                                                         *)
(* Time.  absoluteTime is a real number in the source.  The model counts   *)
(* it in steps of 1/Sub minute, so a cursor between two whole minutes is   *)
(* representable; keyframe times are whole minutes as in the source.       *)
(*                                                                         *)
(* Arithmetic.  factor = timeProgress / timeDiff is kept as the fraction   *)
(* <<num, den>>, and Math.round(c1 + (c2 - c1) * factor) is computed       *)
(* exactly as floor(x + 1/2).                                              *)
(***************************************************************************)
EXTENDS Integers, Sequences, FiniteSets, TLC

VARIABLES
    gridSize,          \* useState(8), line 120
    currentGrid,       \* the resolved grid, line 121
    absoluteTime,      \* playback cursor in 1/Sub minutes, line 124
    totalDays,         \* line 134
    keyframesByDay,    \* the schedule: a JS array of days, line 137
    selectedDay,       \* line 147
    selectedKeyframe,  \* line 148
    isPlaying,         \* line 123
    animationFrame,    \* a frame requested through animationFrameId.current (line 175)
                       \* is due and not cancelled
    isGenerating,      \* line 158
    aiClosure,         \* selectedDay and gridSize as captured by the pending
                       \* handleGeneratePattern call
    masterBrightness,  \* line 130
    serialPort,        \* line 167: the open port, NoPort for null
    portWriter,        \* line 168: the writer of the port, NoWriter for null
    connectionStatus,  \* line 169
    connecting,        \* the handleConnect calls awaiting the port, each as the
                       \* connectionStatus its closure holds
    closing,           \* the writers captured by the handleDisconnect calls that are
                       \* awaiting close()
    resetTimers,       \* number of armed timeouts of line 405 whose closure holds
                       \* connectionStatus 'error'
    writes,            \* the portWriter.write calls whose promise is pending, oldest
                       \* first, each with its writer and its buffer
    lastUpdateTime,    \* lastUpdateTime.current, line 170, in ms on the scale of now
    redProgram,        \* line 1109, single-day variant: the bands that boost red
    greenProgram,      \* line 1108, single-day variant: the bands that boost green
    blueProgram,       \* line 1110, single-day variant: the bands that boost blue
    now,               \* Date.now(), in milliseconds since the page was opened
    alerted,           \* the last operation called alert()
    failure,           \* "none"; "handler": the last operation ended in an uncaught
                       \* exception; "render": an exception while rendering unmounted
                       \* the component
    lastOp,            \* the last operation and its arguments
    pre,               \* the component's state when the last operation was invoked
    ops                \* number of operations the run may still take

vars == <<gridSize, currentGrid, absoluteTime, totalDays, keyframesByDay, selectedDay,
          selectedKeyframe, isPlaying, animationFrame, isGenerating, aiClosure,
          masterBrightness, serialPort, portWriter, connectionStatus, connecting, closing,
          resetTimers, writes, lastUpdateTime, redProgram, greenProgram, blueProgram,
          now, alerted, failure, lastOp, pre, ops>>

\* the boost programs of the single-day variant, which the multi-day component
\* does not have
programs == <<redProgram, greenProgram, blueProgram>>

\* the state of the serial link, which no handler of the keyframe store sets
link == <<masterBrightness, serialPort, portWriter, connectionStatus, connecting,
          closing, resetTimers>>

----------------------------------------------------------------------------
(* Program constants *)

CYCLE_DURATION == 1440

InitGridSize == 8

InitTotalDays == 7

MinDays == 1

MaxDays == 14

redValue == 255

greenValue == 255

blueValue == 255

InitMasterBrightness == 100

\* the throttle of the stream to the device, in ms, line 412
Throttle == 50

\* frame delimiters, lines 365 and 378
FrameStart == 171

FrameEnd == 186

(* Bounds of the model *)

Sub == 2

MaxKf == 3

----------------------------------------------------------------------------
(* Cells and grids *)

Cell(r, g, b, a) == [r |-> r, g |-> g, b |-> b, active |-> a]

\* the literal { r: 0, g: 0, b: 0, active: false }
BlackCell == Cell(0, 0, 0, FALSE)

WhiteCell == Cell(255, 255, 255, TRUE)

\* Array.from({ length: n }, () => cell)
UniformGrid(n, cell) == [i \in 1..n |-> cell]

\* index is 0-based as in the source
CellOrBlackDefaultsToPrev(grid, index) ==
    IF index + 1 <= Len(grid) THEN grid[index + 1]
    ELSE IF Len(grid) > 0 THEN grid[Len(grid)] ELSE BlackCell

\* grid[index] || { r: 0, g: 0, b: 0, active: false }
CellOrBlack(grid, index) ==
    IF index + 1 <= Len(grid) THEN grid[index + 1] ELSE BlackCell

\* Math.round(n / d) for d > 0: floor(n/d + 1/2)
RoundDiv(n, d) == (2 * n + d) \div (2 * d)

----------------------------------------------------------------------------
(* Days of the schedule.  A slot of the JS array keyframesByDay holds an   *)
(* array of keyframes, or is a hole (left by an assignment past the end),  *)
(* or holds undefined (a hole copied by the spread [...prev]).             *)

ArrayDay(kfs) == [kind |-> "array", kfs |-> kfs]

HoleDay == [kind |-> "hole", kfs |-> <<>>]

UndefinedDay == [kind |-> "undefined", kfs |-> <<>>]

\* keyframesByDay[day] || []   (day is 0-based)
DayKeyframes(days, day) ==
    IF day >= 0 /\ day + 1 <= Len(days) /\ days[day + 1].kind = "array"
    THEN days[day + 1].kfs
    ELSE <<>>

----------------------------------------------------------------------------
(* Timeline sampler: updateGridFromTimeline, lines 197-241 *)

RECURSIVE InsertByTime(_, _)
\* stable insertion: kf goes after every element whose time is <= kf.time
InsertByTime(sorted, kf) ==
    IF sorted = <<>> THEN <<kf>>
    ELSE IF sorted[Len(sorted)].time <= kf.time THEN Append(sorted, kf)
    ELSE Append(InsertByTime(SubSeq(sorted, 1, Len(sorted) - 1), kf), sorted[Len(sorted)])

RECURSIVE SortByTime(_)
\* [...list].sort((a, b) => a.time - b.time): ascending and stable
SortByTime(list) ==
    IF list = <<>> THEN <<>>
    ELSE InsertByTime(SortByTime(SubSeq(list, 1, Len(list) - 1)), list[Len(list)])

\* sortedKeyframes[i + 1] || sortedKeyframes[0], as a 1-based position
NextIndex(sorted, i) == IF i + 1 <= Len(sorted) THEN i + 1 ELSE 1

\* the test of line 211; time is in 1/Sub minutes
BracketCond(sorted, i, time) ==
    /\ time >= sorted[i].time * Sub
    /\ \/ time < sorted[NextIndex(sorted, i)].time * Sub
       \/ sorted[i].time >= sorted[NextIndex(sorted, i)].time

\* lines 205-216: the positions <<prev, next>> in the sorted list
FindBracket(sorted, time) ==
    LET hits == {i \in 1..Len(sorted) : BracketCond(sorted, i, time)}
    IN  IF hits = {} THEN <<Len(sorted), 1>>
        ELSE LET i == CHOOSE j \in hits : \A k \in hits : j <= k
             IN  <<i, NextIndex(sorted, i)>>

\* lines 218-222 without the wrap of a negative timeProgress at line 221
FactorWithoutProgressWrap(prevKeyframe, nextKeyframe, time) ==
    LET d0 == nextKeyframe.time - prevKeyframe.time
        timeDiff == IF d0 < 0 THEN d0 + CYCLE_DURATION ELSE d0
        timeProgress == time - prevKeyframe.time * Sub
    IN  IF timeDiff = 0 THEN <<0, 1>> ELSE <<timeProgress, timeDiff * Sub>>

\* lines 218-222: factor as <<numerator, denominator>>, denominator > 0
Factor(prevKeyframe, nextKeyframe, time) ==
    LET d0 == nextKeyframe.time - prevKeyframe.time
        timeDiff == IF d0 < 0 THEN d0 + CYCLE_DURATION ELSE d0
        p0 == time - prevKeyframe.time * Sub
        timeProgress == IF p0 < 0 THEN p0 + CYCLE_DURATION * Sub ELSE p0
    IN  IF timeDiff = 0 THEN <<0, 1>> ELSE <<timeProgress, timeDiff * Sub>>

interpolateColorCutAfterHalf(color1, color2, factor) ==
    [r |-> RoundDiv(color1.r * factor[2] + (color2.r - color1.r) * factor[1], factor[2]),
     g |-> RoundDiv(color1.g * factor[2] + (color2.g - color1.g) * factor[1], factor[2]),
     b |-> RoundDiv(color1.b * factor[2] + (color2.b - color1.b) * factor[1], factor[2]),
     active |-> IF 2 * factor[1] <= factor[2] THEN color1.active ELSE color2.active]

\* lines 224-232
interpolateColor(color1, color2, factor) ==
    [r |-> RoundDiv(color1.r * factor[2] + (color2.r - color1.r) * factor[1], factor[2]),
     g |-> RoundDiv(color1.g * factor[2] + (color2.g - color1.g) * factor[1], factor[2]),
     b |-> RoundDiv(color1.b * factor[2] + (color2.b - color1.b) * factor[1], factor[2]),
     active |-> IF 2 * factor[1] < factor[2] THEN color1.active ELSE color2.active]

\* lines 234-238
InterpolatedGrid(size, prevKeyframe, nextKeyframe, factor) ==
    [i \in 1..(size * size) |->
        interpolateColor(CellOrBlack(prevKeyframe.grid, i - 1),
                         CellOrBlack(nextKeyframe.grid, i - 1), factor)]

\* the grid handed to setCurrentGrid by updateGridFromTimeline(time, day)
UpdateGridFromTimeline(size, days, time, day) ==
    LET dayKeyframes == DayKeyframes(days, day)
    IN  IF Len(dayKeyframes) = 0 THEN UniformGrid(size * size, BlackCell)
        ELSE LET sortedKeyframes == SortByTime(dayKeyframes)
                 br == FindBracket(sortedKeyframes, time)
                 prevKeyframe == sortedKeyframes[br[1]]
                 nextKeyframe == sortedKeyframes[br[2]]
             IN  InterpolatedGrid(size, prevKeyframe, nextKeyframe,
                                  Factor(prevKeyframe, nextKeyframe, time))

\* line 179 (integer days only); NaN when days = 0 is modelled as day -1
CurrentDay(time, days) ==
    IF days > 0 THEN (time \div (CYCLE_DURATION * Sub)) % days ELSE -1

\* line 180
CurrentTime(time) == time % (CYCLE_DURATION * Sub)

currentDay == CurrentDay(absoluteTime, totalDays)

currentTime == CurrentTime(absoluteTime)

----------------------------------------------------------------------------
(* History kept for stating the properties *)

\* an operation with its numeric arguments
Op(name, a, b) == [op |-> name, a |-> a, b |-> b, tag |-> ""]

\* an operation with the kind of its input
OpOn(name, tag) == [op |-> name, a |-> 0, b |-> 0, tag |-> tag]

\* the component's state
Snapshot ==
    [gridSize |-> gridSize, currentGrid |-> currentGrid, absoluteTime |-> absoluteTime,
     totalDays |-> totalDays, keyframesByDay |-> keyframesByDay,
     selectedDay |-> selectedDay, selectedKeyframe |-> selectedKeyframe,
     isPlaying |-> isPlaying, isGenerating |-> isGenerating, aiClosure |-> aiClosure,
     masterBrightness |-> masterBrightness, serialPort |-> serialPort,
     portWriter |-> portWriter, connectionStatus |-> connectionStatus,
     connecting |-> connecting, closing |-> closing, resetTimers |-> resetTimers,
     writes |-> writes, lastUpdateTime |-> lastUpdateTime]

NoClosure == [selectedDay |-> 0, gridSize |-> 0]

\* null for serialPort and portWriter; the n-th port opened and its writer are n
NoPort == 0

NoWriter == 0

\* a boost program: the bands of the day in which it is enabled
Program(morning, midday, evening, night) ==
    [morning |-> morning, midday |-> midday, evening |-> evening, night |-> night]

\* lines 1108-1110 after construction
Unprogrammed ==
    /\ redProgram = Program(FALSE, FALSE, FALSE, FALSE)
    /\ greenProgram = Program(FALSE, FALSE, FALSE, FALSE)
    /\ blueProgram = Program(FALSE, FALSE, FALSE, FALSE)

\* lines 130 and 167-170 after construction; lastUpdateTime.current starts at 0, which
\* is more than Throttle ms before every reading of Date.now()
Unconnected ==
    /\ masterBrightness = InitMasterBrightness
    /\ serialPort = NoPort
    /\ portWriter = NoWriter
    /\ connectionStatus = "disconnected"
    /\ connecting = <<>>
    /\ closing = {}
    /\ resetTimers = 0
    /\ writes = <<>>
    /\ lastUpdateTime = 0 - (Throttle + 1)

----------------------------------------------------------------------------
(* The sampler as a function of its inputs: every day list of up to MaxKf  *)
(* keyframes over SampleTimes x SampleGrids, every query time of           *)
(* SampleQueries and both grid sizes; the render effect of lines 454-456   *)
(* then resolves the grid.                                                 *)

SampleTimes == {0, 360, 720}

ColourCell == Cell(200, 100, 50, TRUE)

SampleGrids == { <<BlackCell>>,
                 <<WhiteCell, WhiteCell, WhiteCell, WhiteCell>>,
                 <<BlackCell, ColourCell>> }

\* query times in 1/Sub minutes: whole minutes, 180 + 1/Sub and the end of the cycle
SampleQueries == {0, 360 * Sub, 720 * Sub, 1080 * Sub, 180 * Sub + 1,
                  CYCLE_DURATION * Sub - 1}

SampleSizes == {1, 2}

SampleLists ==
    UNION { [1..n -> SampleTimes \X SampleGrids] : n \in 0..MaxKf }

\* the i-th keyframe of a sample list; ids are distinct
SampleKeyframes(l) ==
    [i \in 1..Len(l) |-> [id |-> i, name |-> i, time |-> l[i][1], grid |-> l[i][2]]]

SamplerInit ==
    /\ gridSize \in SampleSizes
    /\ \E l \in SampleLists : keyframesByDay = <<ArrayDay(SampleKeyframes(l))>>
    /\ absoluteTime \in SampleQueries
    /\ totalDays = 1
    /\ currentGrid = <<>>
    /\ selectedDay = 0
    /\ selectedKeyframe = 0
    /\ isPlaying = FALSE
    /\ animationFrame = FALSE
    /\ isGenerating = FALSE
    /\ aiClosure = NoClosure
    /\ now = 0
    /\ alerted = FALSE
    /\ failure = "none"
    /\ Unconnected
    /\ Unprogrammed
    /\ lastOp = Op("init", 0, 0)
    /\ pre = Snapshot
    /\ ops = 1

\* useEffect of lines 454-456: updateGridFromTimeline(currentTime, currentDay)
RenderEffect ==
    /\ lastOp.op = "init"
    /\ currentGrid' = UpdateGridFromTimeline(gridSize, keyframesByDay, currentTime, currentDay)
    /\ lastOp' = Op("updateGridFromTimeline", currentTime, currentDay)
    /\ pre' = Snapshot
    /\ ops' = ops - 1
    /\ UNCHANGED <<gridSize, absoluteTime, totalDays, keyframesByDay, selectedDay,
                   selectedKeyframe, isPlaying, animationFrame, isGenerating, aiClosure,
                   now, alerted, failure, link, writes, lastUpdateTime,
                   programs>>

SamplerNext == RenderEffect

SamplerSpec == SamplerInit /\ [][SamplerNext]_vars

----------------------------------------------------------------------------
(* Properties of the sampler, stated on the resolved grid *)

Sampled == lastOp.op = "updateGridFromTimeline"

\* the day list the sampler was given, and its time-sorted order
SampledList == DayKeyframes(keyframesByDay, lastOp.b)

SampledSorted == SortByTime(SampledList)

\* the query time, in 1/Sub minutes
SampledTime == lastOp.a

\* t lies in [s[p].time, s[n].time) going forward cyclically, for the
\* cyclically adjacent positions p, n of the sorted list s
InCyclicBracket(s, p, n, t) ==
    /\ n = (IF p = Len(s) THEN 1 ELSE p + 1)
    /\ IF p < Len(s)
       THEN s[p].time * Sub <= t /\ t < s[n].time * Sub
       ELSE s[p].time * Sub <= t \/ t < s[1].time * Sub

\* x = Math.round(n / d), d > 0: x - 1/2 <= n/d < x + 1/2
IsRounded(x, n, d) == 2 * d * x - d <= 2 * n /\ 2 * n < 2 * d * x + d

\* cell is color1 blended to color2 at factor num/den with the active flag cut at 1/2
IsBlend(cell, color1, color2, num, den) ==
    /\ IsRounded(cell.r, color1.r * den + (color2.r - color1.r) * num, den)
    /\ IsRounded(cell.g, color1.g * den + (color2.g - color1.g) * num, den)
    /\ IsRounded(cell.b, color1.b * den + (color2.b - color1.b) * num, den)
    /\ cell.active = (IF 2 * num < den THEN color1.active ELSE color2.active)

\* grid[index], or inactive black when the stored grid has no such index (1-based)
StoredCell(grid, i) == IF i \in DOMAIN grid THEN grid[i] ELSE Cell(0, 0, 0, FALSE)

\* the cyclic duration and elapsed time of section 4.2 step 5, as a fraction
CyclicFactor(prev, next, t) ==
    LET d == IF next.time - prev.time < 0
             THEN next.time - prev.time + CYCLE_DURATION ELSE next.time - prev.time
        e == IF t - prev.time * Sub < 0
             THEN t - prev.time * Sub + CYCLE_DURATION * Sub ELSE t - prev.time * Sub
    IN  IF d = 0 THEN <<0, 1>> ELSE <<e, d * Sub>>

\* grid is the blend of prev and next at time t, cell for cell, over size * size cells
IsInterpolation(grid, size, prev, next, t) ==
    /\ DOMAIN grid = 1..(size * size)
    /\ \A i \in 1..(size * size) :
          IsBlend(grid[i], StoredCell(prev.grid, i), StoredCell(next.grid, i),
                  CyclicFactor(prev, next, t)[1], CyclicFactor(prev, next, t)[2])

\* the example of section 8: keyframes at 0 (black, inactive) and 720 (white, active)
IsExampleDay(list) ==
    /\ Len(list) = 2
    /\ list[1].time = 0 /\ list[1].grid = <<BlackCell>>
    /\ list[2].time = 720 /\ list[2].grid = <<WhiteCell, WhiteCell, WhiteCell, WhiteCell>>

\* C1: for a non-empty day list (keyframes may share a timestamp) and a query time
\* t, the resolved grid is the interpolation between a cyclically adjacent pair
\* (prev, next) of the time-sorted list with t in [prev.time, next.time) going
\* forward cyclically; when t precedes every keyframe the pair is (last, first).
C1_BracketContainsTime ==
    (Sampled /\ SampledList # <<>>) =>
        LET s == SampledSorted
            t == SampledTime
        IN  /\ \E p \in 1..Len(s) : \E n \in 1..Len(s) :
                  /\ InCyclicBracket(s, p, n, t)
                  /\ IsInterpolation(currentGrid, gridSize, s[p], s[n], t)
            /\ (\A i \in 1..Len(s) : t < s[i].time * Sub) =>
                  IsInterpolation(currentGrid, gridSize, s[Len(s)], s[1], t)

\* C2: exact match: for a keyframe k of the day list with no keyframe of the same
\* timestamp before it in sort order and a grid of exactly gridSize^2 cells,
\* sampling at t = k.time resolves to k.grid cell for cell.
C2_ExactMatch ==
    Sampled =>
        LET s == SampledSorted
        IN  \A j \in 1..Len(s) :
                ( /\ SampledTime = s[j].time * Sub
                  /\ Len(s[j].grid) = gridSize * gridSize
                  /\ \A i \in 1..(j - 1) : s[i].time # s[j].time )
                => currentGrid = s[j].grid

\* C3: wraparound is cyclic: when t is at or after the last keyframe's time, or
\* before the first's, the resolved grid is the interpolation from the last
\* keyframe to the first with factor (t - last.time, + CYCLE_DURATION if negative)
\* / (first.time - last.time, + CYCLE_DURATION if negative), 0 when that duration
\* is 0; in the example day, sampling at 1080 gives factor 1/2 and every channel
\* round(255 + (0 - 255) * 0.5) = 128.
C3_WrapInterpolatesLastToFirst ==
    (Sampled /\ SampledList # <<>>) =>
        LET s == SampledSorted
            t == SampledTime
        IN  /\ (t >= s[Len(s)].time * Sub \/ t < s[1].time * Sub) =>
                  IsInterpolation(currentGrid, gridSize, s[Len(s)], s[1], t)
            /\ (IsExampleDay(SampledList) /\ t = 1080 * Sub /\ gridSize = 1) =>
                  /\ currentGrid[1].r = 128
                  /\ currentGrid[1].g = 128
                  /\ currentGrid[1].b = 128

\* C4: the active flag is never blended: every resolved cell takes prev.active
\* when factor < 0.5 and next.active when factor >= 0.5, and r, g, b are each
\* round(prev + (next - prev) * factor), for the pair the sampler selected; in the
\* example day, sampling at 360 (factor exactly 0.5) takes active from the
\* second keyframe.
C4_ActiveIsCutAtHalf ==
    (Sampled /\ SampledList # <<>>) =>
        LET s == SampledSorted
            t == SampledTime
            br == FindBracket(s, t)
            f == Factor(s[br[1]], s[br[2]], t)
        IN  /\ \A i \in 1..(gridSize * gridSize) :
                  /\ i \in DOMAIN currentGrid
                  /\ IsBlend(currentGrid[i], StoredCell(s[br[1]].grid, i),
                             StoredCell(s[br[2]].grid, i), f[1], f[2])
            /\ (IsExampleDay(SampledList) /\ t = 360 * Sub) =>
                  /\ 2 * f[1] = f[2]
                  /\ \A i \in DOMAIN currentGrid : currentGrid[i].active

C4_Witness ==
    /\ Sampled
    /\ IsExampleDay(SampledList)
    /\ SampledTime = 360 * Sub
    /\ gridSize = 1
    /\ currentGrid = <<Cell(128, 128, 128, TRUE)>>

\* C5: for any day list, any stored grid lengths and any t, the resolved grid has
\* exactly gridSize^2 cells; for an empty day list every cell is inactive black,
\* and an index missing from a keyframe's stored grid counts as inactive black.
C5_ResolvedGridLength ==
    Sampled =>
        /\ DOMAIN currentGrid = 1..(gridSize * gridSize)
        /\ SampledList = <<>> =>
              \A i \in DOMAIN currentGrid : currentGrid[i] = Cell(0, 0, 0, FALSE)
        /\ SampledList # <<>> =>
              LET s == SampledSorted
                  br == FindBracket(s, SampledTime)
                  f == Factor(s[br[1]], s[br[2]], SampledTime)
              IN  \A i \in DOMAIN currentGrid :
                      IsBlend(currentGrid[i], StoredCell(s[br[1]].grid, i),
                              StoredCell(s[br[2]].grid, i), f[1], f[2])

C5_Witness ==
    /\ Sampled
    /\ gridSize = 2
    /\ Len(SampledList) = 2
    /\ SampledList[1].grid = <<BlackCell, ColourCell>>
    /\ SampledList[2].grid = <<BlackCell>>
    /\ SampledList[1].time = 0 /\ SampledList[2].time = 720
    /\ SampledTime = 360 * Sub
    /\ Len(currentGrid) = 4
    /\ currentGrid[1] = Cell(0, 0, 0, FALSE)
    /\ currentGrid[2] = Cell(100, 50, 25, FALSE)
    /\ currentGrid[4] = Cell(0, 0, 0, FALSE)

----------------------------------------------------------------------------
(* Keyframe store and schedule: helpers *)

\* operations in one run
MaxOps == 3

\* milliseconds the clock may advance in one run
MaxNow == 1

\* ids are counted in 1/IdScale milliseconds, so that Date.now() + Math.random()
\* is an integer
IdScale == 10

\* id: Date.now()
DateNowId(ms) == ms * IdScale

\* id: Date.now() + Math.random() of the k-th keyframe made in one call (k >= 1);
\* the random fractions of one call are taken to be distinct and non-zero
FreshId(ms, k) == ms * IdScale + k

Keyframe(id, name, time, grid) == [id |-> id, name |-> name, time |-> time, grid |-> grid]

\* JSON.parse(JSON.stringify(kfs)): a deep copy; every field is a finite number, a
\* boolean or an array of such, so the copy is equal to the original, ids included
JsonCopy(kfs) == kfs

\* [...prev]: the spread reads a hole as undefined
Spread(days) ==
    [i \in 1..Len(days) |-> IF days[i].kind = "hole" THEN UndefinedDay ELSE days[i]]

\* const newDays = [...prev]; newDays[day] = kfs; return newDays   (day is 0-based)
SetDay(days, day, kfs) ==
    IF day + 1 <= Len(days)
    THEN [Spread(days) EXCEPT ![day + 1] = ArrayDay(kfs)]
    ELSE Spread(days) \o [i \in 1..(day - Len(days)) |-> HoleDay] \o <<ArrayDay(kfs)>>

\* Array(n).fill(null).map(() => JSON.parse(JSON.stringify(kfs)))
CopiesOf(n, kfs) == [i \in 1..n |-> ArrayDay(JsonCopy(kfs))]

\* keyframes.filter(kf => pred): the subsequence of the keyframes whose id is not id
RECURSIVE FilterOutId(_, _)
FilterOutId(kfs, id) ==
    IF kfs = <<>> THEN <<>>
    ELSE LET rest == FilterOutId(Tail(kfs), id)
         IN  IF Head(kfs).id # id THEN <<Head(kfs)>> \o rest ELSE rest

\* kfs.findIndex(k => k.id === id): 0-based, -1 when absent
FindIndexById(kfs, id) ==
    LET hits == {i \in 1..Len(kfs) : kfs[i].id = id}
    IN  IF hits = {} THEN -1 ELSE (CHOOSE i \in hits : \A j \in hits : i <= j) - 1

\* the values v and brightness levels, for v in -300..300, at which the double
\* v * (brightness / 100) is the largest double below a half-integer although
\* v * brightness / 100 is that half-integer (50 * 0.29 is 14.499999999999998)
BelowHalf ==
    { <<0 - 275, 14>>, <<0 - 230, 55>>, <<0 - 225, 14>>, <<0 - 225, 54>>,
      <<0 - 210, 55>>, <<0 - 190, 55>>, <<0 - 175, 14>>, <<0 - 175, 34>>,
      <<0 - 170, 55>>, <<0 - 150, 7>>, <<0 - 150, 17>>, <<0 - 150, 81>>,
      <<0 - 110, 55>>, <<0 - 90, 55>>, <<0 - 75, 14>>, <<0 - 75, 34>>, <<0 - 50, 7>>,
      <<0 - 50, 55>>, <<0 - 25, 14>>, <<25, 58>>, <<45, 70>>, <<50, 29>>, <<50, 57>>,
      <<75, 82>>, <<85, 70>>, <<90, 35>>, <<150, 41>>, <<150, 57>>, <<150, 69>>,
      <<165, 70>>, <<170, 35>>, <<175, 70>> }

\* Math.round(v * brightness) with brightness = level / 100 in double arithmetic,
\* lines 370-371 and 487-488, for v in -300..300 and level in 0..100
ScaleRound(v, level) ==
    IF <<v, level>> \in BelowHalf THEN RoundDiv(v * level, 100) - 1
    ELSE RoundDiv(v * level, 100)

\* getAdjustedColor, lines 486-489
getAdjustedColor(r, g, b) ==
    [r |-> ScaleRound(r, masterBrightness),
     g |-> ScaleRound(g, masterBrightness),
     b |-> ScaleRound(b, masterBrightness)]

\* the store of a number into a Uint8Array element: the number modulo 256
ToUint8(n) == n % 256

\* the element of a buffer of length len that the loop of lines 369-377 leaves at
\* index k (0-based), for 2 <= k: the channel of cell (k - 2) \div 3, or the 0 the
\* buffer was created with
CellByte(grid, level, k) ==
    LET c == (k - 2) \div 3
        cell == grid[c + 1]
        v == IF (k - 2) % 3 = 0 THEN cell.r ELSE IF (k - 2) % 3 = 1 THEN cell.g ELSE cell.b
    IN  IF c + 1 <= Len(grid)
        THEN ToUint8(ScaleRound(IF cell.active THEN v ELSE 0, level))
        ELSE 0

\* the buffer with the end marker written before the cells, so that a grid of more
\* than size * size cells overwrites it
EncodeFrameMarkerFirst(grid, size, level) ==
    LET len == 1 + 1 + size * size * 3 + 1
    IN  [j \in 1..len |->
            IF j = 1 THEN FrameStart
            ELSE IF j = 2 THEN ToUint8(size)
            ELSE IF j = len /\ Len(grid) <= size * size THEN FrameEnd
            ELSE CellByte(grid, level, j - 1)]

\* the buffer of sendGridToArduino, lines 364-378: writes past the end of a typed
\* array are dropped, and the end marker is written last
EncodeFrame(grid, size, level) ==
    LET len == 1 + 1 + size * size * 3 + 1
    IN  [j \in 1..len |->
            IF j = len THEN FrameEnd
            ELSE IF j = 1 THEN FrameStart
            ELSE IF j = 2 THEN ToUint8(size)
            ELSE CellByte(grid, level, j - 1)]

\* a call of portWriter.write(buffer) whose promise is pending
Write(writer, buffer) == [writer |-> writer, buffer |-> buffer]

\* the effect of lines 409-417 without the test of line 412
StreamEffectUnthrottled(oldGrid, newGrid, size, l, sendChanged, gridChanged, ms) ==
    LET linkUp == l.connectionStatus = "connected" /\ l.portWriter # NoWriter
        level == l.masterBrightness
        writer == l.portWriter
        first == linkUp /\ sendChanged
        writes1 == IF first
                   THEN Append(l.writes, Write(writer, EncodeFrame(oldGrid, size, level)))
                   ELSE l.writes
        second == linkUp /\ gridChanged
    IN  [writes |-> IF second
                    THEN Append(writes1, Write(writer, EncodeFrame(newGrid, size, level)))
                    ELSE writes1,
         lastUpdateTime |-> IF first \/ second THEN ms ELSE lastUpdateTime]

\* the effect of lines 409-417 over the renders of one commit, read at ms: the first
\* render has the new sendGridToArduino and the grid resolved before the commit, the
\* render after the effect of lines 454-456 has the grid resolved anew
StreamEffect(oldGrid, newGrid, size, l, sendChanged, gridChanged, ms) ==
    LET linkUp == l.connectionStatus = "connected" /\ l.portWriter # NoWriter
        level == l.masterBrightness
        writer == l.portWriter
        first == linkUp /\ sendChanged /\ ms - lastUpdateTime > Throttle
        last1 == IF first THEN ms ELSE lastUpdateTime
        writes1 == IF first
                   THEN Append(l.writes, Write(writer, EncodeFrame(oldGrid, size, level)))
                   ELSE l.writes
        second == linkUp /\ gridChanged /\ ms - last1 > Throttle
    IN  [writes |-> IF second
                    THEN Append(writes1, Write(writer, EncodeFrame(newGrid, size, level)))
                    ELSE writes1,
         lastUpdateTime |-> IF second THEN ms ELSE last1]

\* Array.from({ length: newSize }, (_, i) => kf.grid[i] || black), line 424
ResizedGrid(grid, newSize) == [i \in 1..newSize |-> CellOrBlack(grid, i - 1)]

\* the updater of the resize effect, lines 421-426: map skips holes
ResizedDays(days, size) ==
    [d \in 1..Len(days) |->
        IF days[d].kind = "array"
        THEN ArrayDay([k \in 1..Len(days[d].kfs) |->
                 [days[d].kfs[k] EXCEPT !.grid = ResizedGrid(@, size * size)]])
        ELSE days[d]]

\* dayKeyframes.map on a slot holding undefined is a TypeError
ResizeThrows(days) == \E d \in 1..Len(days) : days[d].kind = "undefined"

\* PATTERN_CATEGORIES[c].patterns[p].keyframes(size) of ../constants, without ids:
\* a dark keyframe at 0 and a lit one at 720
PatternKeyframes(size) ==
    << Keyframe(0, 101, 0, UniformGrid(size * size, BlackCell)),
       Keyframe(0, 102, 720, UniformGrid(size * size, WhiteCell)) >>

\* lines 137-145: ids Date.now() + Math.random() + i, then one JSON copy per day
InitialKeyframes ==
    LET kfSource == PatternKeyframes(InitGridSize)
        kfs == [i \in 1..Len(kfSource) |-> [kfSource[i] EXCEPT !.id = FreshId(i - 1, 1)]]
    IN  CopiesOf(InitTotalDays, kfs)

----------------------------------------------------------------------------
(* Keyframe store and schedule: operations.  Every operation ends with the  *)
(* render it causes: the effect of lines 454-456 resolves currentGrid from  *)
(* the new state.                                                           *)

\* the state after the component is constructed and has rendered once
Construction ==
    /\ gridSize = InitGridSize
    /\ totalDays = InitTotalDays
    /\ keyframesByDay = InitialKeyframes
    /\ absoluteTime = 0
    /\ selectedDay = 0
    /\ selectedKeyframe = 0
    /\ isPlaying = FALSE
    /\ animationFrame = FALSE
    /\ isGenerating = FALSE
    /\ aiClosure = NoClosure
    /\ now = 0
    /\ alerted = FALSE
    /\ failure = "none"
    /\ currentGrid = UpdateGridFromTimeline(InitGridSize, InitialKeyframes, 0, 0)
    /\ Unconnected
    /\ Unprogrammed
    /\ lastOp = Op("init", 0, 0)
    /\ pre = [Snapshot EXCEPT !.currentGrid = <<>>]

\* a run of up to MaxOps operations from the state after construction
Init == Construction /\ ops = MaxOps

Ready == ops > 0 /\ failure # "render"

\* Date.now() as an operation may read it: the last reading, or a later millisecond
ClockReadings == {now} \cup {ms \in {now + 1} : ms <= MaxNow}

\* the effect of lines 429-452 with a cleanup that cancels nothing
AnimateEffectWithoutCancel(new) ==
    IF new.isPlaying # isPlaying \/ new.totalDays # totalDays
    THEN animationFrame \/ new.isPlaying
    ELSE animationFrame

\* the effect of lines 429-452 after a commit of the state new: when isPlaying or
\* totalDays changed, the cleanup cancels the frame that is due and the body requests
\* one if the component is playing; otherwise a requested frame stays due
\* (animationSpeed, the third dependency, is fixed)
AnimateEffect(new) ==
    IF new.isPlaying # isPlaying \/ new.totalDays # totalDays
    THEN new.isPlaying
    ELSE animationFrame

\* the effect of lines 454-456 with the dependencies absoluteTime, currentTime and
\* currentDay only
RenderedGridOnCursorChange(new) ==
    IF new.absoluteTime # absoluteTime
       \/ CurrentDay(new.absoluteTime, new.totalDays) # currentDay
    THEN UpdateGridFromTimeline(new.gridSize, new.keyframesByDay,
                                CurrentTime(new.absoluteTime),
                                CurrentDay(new.absoluteTime, new.totalDays))
    ELSE currentGrid

\* the grid after the effect of lines 454-456, which runs when absoluteTime,
\* keyframesByDay, currentTime, currentDay or updateGridFromTimeline (a new function
\* when gridSize or keyframesByDay changed, line 241) changed
RenderedGrid(new) ==
    IF \/ new.absoluteTime # absoluteTime
       \/ new.keyframesByDay # keyframesByDay
       \/ new.gridSize # gridSize
       \/ CurrentDay(new.absoluteTime, new.totalDays) # currentDay
    THEN UpdateGridFromTimeline(new.gridSize, new.keyframesByDay,
                                CurrentTime(new.absoluteTime),
                                CurrentDay(new.absoluteTime, new.totalDays))
    ELSE currentGrid

\* the state after an operation that read the clock as ms and set the fields of new,
\* rendered
CommitAt(op, new, al, ms) ==
    /\ gridSize' = new.gridSize
    /\ absoluteTime' = new.absoluteTime
    /\ totalDays' = new.totalDays
    /\ keyframesByDay' = new.keyframesByDay
    /\ selectedDay' = new.selectedDay
    /\ selectedKeyframe' = new.selectedKeyframe
    /\ isPlaying' = new.isPlaying
    /\ animationFrame' = AnimateEffect(new)
    /\ isGenerating' = new.isGenerating
    /\ aiClosure' = new.aiClosure
    /\ currentGrid' = RenderedGrid(new)
    /\ LET sent == StreamEffect(currentGrid, currentGrid', new.gridSize, Snapshot,
                                new.gridSize # gridSize,
                                \/ new.absoluteTime # absoluteTime
                                \/ new.keyframesByDay # keyframesByDay
                                \/ new.gridSize # gridSize,
                                ms)
       IN  /\ writes' = sent.writes
           /\ lastUpdateTime' = sent.lastUpdateTime
    /\ UNCHANGED <<link, programs>>
    /\ alerted' = al
    /\ failure' = "none"
    /\ lastOp' = op
    /\ pre' = Snapshot
    /\ ops' = ops - 1
    /\ now' = ms

\* the same for an operation that does not read the clock
Commit(op, new, al) == CommitAt(op, new, al, now)

\* the state after an operation on the serial link that set the fields of l, rendered:
\* sendGridToArduino is a new function when portWriter, serialPort or masterBrightness
\* changed (lines 359 and 386), and the effect of lines 409-417 runs on it and on a
\* change of connectionStatus
LinkCommit(op, l) ==
    /\ masterBrightness' = l.masterBrightness
    /\ serialPort' = l.serialPort
    /\ portWriter' = l.portWriter
    /\ connectionStatus' = l.connectionStatus
    /\ connecting' = l.connecting
    /\ closing' = l.closing
    /\ resetTimers' = l.resetTimers
    /\ LET sent == StreamEffect(currentGrid, currentGrid, gridSize, l,
                                \/ l.portWriter # portWriter
                                \/ l.serialPort # serialPort
                                \/ l.masterBrightness # masterBrightness
                                \/ l.connectionStatus # connectionStatus,
                                FALSE, now)
       IN  /\ writes' = sent.writes
           /\ lastUpdateTime' = sent.lastUpdateTime
    /\ alerted' = FALSE
    /\ failure' = "none"
    /\ lastOp' = op
    /\ pre' = Snapshot
    /\ ops' = ops - 1
    /\ UNCHANGED <<gridSize, currentGrid, absoluteTime, totalDays, keyframesByDay,
                   selectedDay, selectedKeyframe, isPlaying, animationFrame, isGenerating,
                   aiClosure, now,
                   programs>>

\* an operation that ended in an exception before it set any state; an exception
\* while rendering unmounts the component, which runs the cleanup of line 447
Throw(op, kind) ==
    /\ failure' = kind
    /\ alerted' = FALSE
    /\ lastOp' = op
    /\ pre' = Snapshot
    /\ ops' = ops - 1
    /\ animationFrame' = (kind # "render" /\ animationFrame)
    /\ UNCHANGED <<gridSize, currentGrid, absoluteTime, totalDays, keyframesByDay,
                   selectedDay, selectedKeyframe, isPlaying, isGenerating, aiClosure, now,
                   link, writes, lastUpdateTime,
                   programs>>

\* the keyframes of the selected day as rendered, line 181
keyframes == DayKeyframes(keyframesByDay, selectedDay)

\* currentDayKeyframes[selectedKeyframe] is truthy
HasSelectedKeyframe == selectedKeyframe >= 0 /\ selectedKeyframe + 1 <= Len(keyframes)

\* newKeyframes[selectedKeyframe] = { ...newKeyframes[selectedKeyframe], grid: newGrid }
WithSelectedGrid(newGrid) ==
    SetDay(keyframesByDay, selectedDay,
           [keyframes EXCEPT ![selectedKeyframe + 1].grid = newGrid])

\* lines 491-512
handleCellClick(index) ==
    /\ Ready
    /\ index < Len(currentGrid)
    /\ IF ~HasSelectedKeyframe
       THEN Commit(Op("handleCellClick", index, 0), Snapshot, FALSE)
       ELSE LET grid == keyframes[selectedKeyframe + 1].grid
            IN  IF index + 1 > Len(grid)
                THEN Throw(Op("handleCellClick", index, 0), "handler")
                ELSE LET adjustedColor == getAdjustedColor(redValue, greenValue, blueValue)
                         newGrid == [grid EXCEPT ![index + 1] =
                                        Cell(adjustedColor.r, adjustedColor.g, adjustedColor.b,
                                             ~grid[index + 1].active)]
                     IN  Commit(Op("handleCellClick", index, 0),
                                [Snapshot EXCEPT !.keyframesByDay = WithSelectedGrid(newGrid)],
                                FALSE)

\* lines 612-626
fillAll ==
    /\ Ready
    /\ LET adjustedColor == getAdjustedColor(redValue, greenValue, blueValue)
           newGrid == UniformGrid(gridSize * gridSize,
                          Cell(adjustedColor.r, adjustedColor.g, adjustedColor.b, TRUE))
       IN  Commit(Op("fillAll", 0, 0),
                  IF HasSelectedKeyframe
                  THEN [Snapshot EXCEPT !.keyframesByDay = WithSelectedGrid(newGrid)]
                  ELSE Snapshot,
                  FALSE)

\* lines 628-641
clearAll ==
    /\ Ready
    /\ LET newGrid == UniformGrid(gridSize * gridSize, BlackCell)
       IN  Commit(Op("clearAll", 0, 0),
                  IF HasSelectedKeyframe
                  THEN [Snapshot EXCEPT !.keyframesByDay = WithSelectedGrid(newGrid)]
                  ELSE Snapshot,
                  FALSE)

\* the new keyframe appended, the list left as it is
addKeyframeWithoutSort ==
    /\ Ready
    /\ \E ms \in ClockReadings :
       LET currentDayKeyframes == keyframes
           newKeyframe == Keyframe(DateNowId(ms), Len(currentDayKeyframes) + 1,
                                   currentTime \div Sub, currentGrid)
           newKeyframes == Append(currentDayKeyframes, newKeyframe)
       IN  CommitAt(Op("addKeyframe", newKeyframe.id, 0),
                    [Snapshot EXCEPT
                        !.keyframesByDay = SetDay(keyframesByDay, selectedDay, newKeyframes),
                        !.selectedKeyframe = FindIndexById(newKeyframes, newKeyframe.id)],
                    FALSE, ms)

\* lines 543-558
addKeyframe ==
    /\ Ready
    /\ \E ms \in ClockReadings :
       LET currentDayKeyframes == keyframes
           newKeyframe == Keyframe(DateNowId(ms), Len(currentDayKeyframes) + 1,
                                   currentTime \div Sub, currentGrid)
           newKeyframes == SortByTime(Append(currentDayKeyframes, newKeyframe))
       IN  CommitAt(Op("addKeyframe", newKeyframe.id, 0),
                    [Snapshot EXCEPT
                        !.keyframesByDay = SetDay(keyframesByDay, selectedDay, newKeyframes),
                        !.selectedKeyframe = FindIndexById(newKeyframes, newKeyframe.id)],
                    FALSE, ms)

deleteKeyframeWithoutGuard(idToDelete) ==
    /\ Ready
    /\ LET currentDayKeyframes == keyframes
           newKeyframes == FilterOutId(currentDayKeyframes, idToDelete)
       IN  Commit(Op("deleteKeyframe", idToDelete, 0),
                  IF Len(currentDayKeyframes) >= 1
                  THEN [Snapshot EXCEPT
                           !.keyframesByDay = SetDay(keyframesByDay, selectedDay, newKeyframes),
                           !.selectedKeyframe =
                               IF selectedKeyframe >= Len(newKeyframes)
                               THEN Len(newKeyframes) - 1 ELSE selectedKeyframe]
                  ELSE Snapshot,
                  FALSE)

\* lines 560-573
deleteKeyframe(idToDelete) ==
    /\ Ready
    /\ LET currentDayKeyframes == keyframes
           newKeyframes == FilterOutId(currentDayKeyframes, idToDelete)
       IN  Commit(Op("deleteKeyframe", idToDelete, 0),
                  IF Len(currentDayKeyframes) > 1
                  THEN [Snapshot EXCEPT
                           !.keyframesByDay = SetDay(keyframesByDay, selectedDay, newKeyframes),
                           !.selectedKeyframe =
                               IF selectedKeyframe >= Len(newKeyframes)
                               THEN Len(newKeyframes) - 1 ELSE selectedKeyframe]
                  ELSE Snapshot,
                  FALSE)

\* lines 575-581; keyframesByDay[selectedDay][index] throws when the day is undefined
loadKeyframe(index) ==
    /\ Ready
    /\ IF ~(selectedDay + 1 <= Len(keyframesByDay)
            /\ keyframesByDay[selectedDay + 1].kind = "array")
       THEN Throw(Op("loadKeyframe", index, 0), "handler")
       ELSE Commit(Op("loadKeyframe", index, 0),
                   IF index >= 0 /\ index + 1 <= Len(keyframes)
                   THEN [Snapshot EXCEPT
                            !.selectedKeyframe = index,
                            !.absoluteTime = (selectedDay * CYCLE_DURATION
                                              + keyframes[index + 1].time) * Sub]
                   ELSE Snapshot,
                   FALSE)

\* Math.max(0, Math.min(newTime, CYCLE_DURATION - 1))
ClampTime(newTime) ==
    IF newTime > CYCLE_DURATION - 1 THEN CYCLE_DURATION - 1
    ELSE IF newTime < 0 THEN 0 ELSE newTime

\* lines 583-593
updateKeyframeTime(id, newTime) ==
    /\ Ready
    /\ LET currentDayKeyframes == keyframes
           newKeyframes == [i \in 1..Len(currentDayKeyframes) |->
                               IF currentDayKeyframes[i].id = id
                               THEN [currentDayKeyframes[i] EXCEPT !.time = ClampTime(newTime)]
                               ELSE currentDayKeyframes[i]]
       IN  Commit(Op("updateKeyframeTime", id, newTime),
                  [Snapshot EXCEPT !.keyframesByDay =
                      SetDay(keyframesByDay, selectedDay, SortByTime(newKeyframes))],
                  FALSE)

\* a rename that looks the id up in every day
updateKeyframeNameInEveryDay(id, newName) ==
    /\ Ready
    /\ Commit(Op("updateKeyframeName", id, newName),
              [Snapshot EXCEPT !.keyframesByDay =
                  [d \in 1..Len(keyframesByDay) |->
                      IF keyframesByDay[d].kind = "array"
                      THEN ArrayDay([i \in 1..Len(keyframesByDay[d].kfs) |->
                               IF keyframesByDay[d].kfs[i].id = id
                               THEN [keyframesByDay[d].kfs[i] EXCEPT !.name = newName]
                               ELSE keyframesByDay[d].kfs[i]])
                      ELSE keyframesByDay[d]]],
              FALSE)

\* lines 595-603
updateKeyframeName(id, newName) ==
    /\ Ready
    /\ LET currentDayKeyframes == keyframes
           newKeyframes == [i \in 1..Len(currentDayKeyframes) |->
                               IF currentDayKeyframes[i].id = id
                               THEN [currentDayKeyframes[i] EXCEPT !.name = newName]
                               ELSE currentDayKeyframes[i]]
       IN  Commit(Op("updateKeyframeName", id, newName),
                  [Snapshot EXCEPT !.keyframesByDay =
                      SetDay(keyframesByDay, selectedDay, newKeyframes)],
                  FALSE)

\* lines 605-610, the user confirming; JSON.parse(JSON.stringify(undefined)) throws
copyDayToAll ==
    /\ Ready
    /\ IF ~(selectedDay + 1 <= Len(keyframesByDay)
            /\ keyframesByDay[selectedDay + 1].kind = "array")
       THEN IF totalDays > 0 THEN Throw(Op("copyDayToAll", 0, 0), "handler")
            ELSE Commit(Op("copyDayToAll", 0, 0),
                        [Snapshot EXCEPT !.keyframesByDay = <<>>], FALSE)
       ELSE Commit(Op("copyDayToAll", 0, 0),
                   [Snapshot EXCEPT !.keyframesByDay =
                       CopiesOf(totalDays, keyframesByDay[selectedDay + 1].kfs)],
                   FALSE)

\* Math.max(1, Math.min(14, newDayCount))
ClampDays(newDayCount) ==
    IF newDayCount > MaxDays THEN MaxDays
    ELSE IF newDayCount < MinDays THEN MinDays ELSE newDayCount

\* lines 643-663
handleTotalDaysChange(newDayCount) ==
    /\ Ready
    /\ LET clampedDayCount == ClampDays(newDayCount)
           currentDayCount == Len(keyframesByDay)
           lastDay == DayKeyframes(keyframesByDay, currentDayCount - 1)
           newDays == IF clampedDayCount > currentDayCount
                      THEN Spread(keyframesByDay)
                           \o CopiesOf(clampedDayCount - currentDayCount, lastDay)
                      ELSE SubSeq(keyframesByDay, 1, clampedDayCount)
       IN  Commit(Op("handleTotalDaysChange", newDayCount, 0),
                  IF clampedDayCount = currentDayCount THEN Snapshot
                  ELSE [Snapshot EXCEPT
                           !.keyframesByDay = newDays,
                           !.totalDays = clampedDayCount,
                           !.selectedDay = IF selectedDay >= clampedDayCount
                                           THEN clampedDayCount - 1 ELSE selectedDay,
                           !.absoluteTime =
                               IF absoluteTime >= clampedDayCount * CYCLE_DURATION * Sub
                               THEN (clampedDayCount * CYCLE_DURATION - 1) * Sub
                               ELSE absoluteTime],
                  FALSE)

\* line 946 with the resize effect of lines 419-427
setGridSize(size) ==
    /\ Ready
    /\ size # gridSize
    /\ IF ResizeThrows(keyframesByDay)
       THEN Throw(Op("setGridSize", size, 0), "render")
       ELSE Commit(Op("setGridSize", size, 0),
                   [Snapshot EXCEPT !.gridSize = size,
                                    !.keyframesByDay = ResizedDays(keyframesByDay, size)],
                   FALSE)

\* a day button that leaves the cursor where it is
selectDayWithoutSnap(index) ==
    /\ Ready
    /\ index \in 0..(totalDays - 1)
    /\ Commit(Op("selectDay", index, 0), [Snapshot EXCEPT !.selectedDay = index], FALSE)

\* the day buttons, line 891
selectDay(index) ==
    /\ Ready
    /\ index \in 0..(totalDays - 1)
    /\ Commit(Op("selectDay", index, 0),
              [Snapshot EXCEPT !.selectedDay = index,
                               !.absoluteTime = index * CYCLE_DURATION * Sub],
              FALSE)

\* the timeline slider, line 901: whole minutes from 0 to CYCLE_DURATION * totalDays - 1
scrub(minutes) ==
    /\ Ready
    /\ minutes \in 0..(CYCLE_DURATION * totalDays - 1)
    /\ Commit(Op("scrub", minutes, 0),
              [Snapshot EXCEPT !.absoluteTime = minutes * Sub], FALSE)

\* the play/pause button, line 899
togglePlay ==
    /\ Ready
    /\ Commit(Op("togglePlay", 0, 0), [Snapshot EXCEPT !.isPlaying = ~isPlaying], FALSE)

\* animate, lines 430-440: the frame that is due runs, advances the cursor by
\* timeIncrement and requests the next frame
animate(timeIncrement) ==
    /\ Ready
    /\ animationFrame
    /\ totalDays > 0
    /\ Commit(Op("animate", timeIncrement, 0),
              [Snapshot EXCEPT !.absoluteTime =
                  (absoluteTime + timeIncrement) % (CYCLE_DURATION * totalDays * Sub)],
              FALSE)

\* loadPattern(pattern, selectedDay), lines 514-532
handlePatternSelect ==
    /\ Ready
    /\ \E ms \in ClockReadings :
       LET patternKeyframes == PatternKeyframes(gridSize)
           newKeyframes == [i \in 1..Len(patternKeyframes) |->
                               [patternKeyframes[i] EXCEPT !.id = FreshId(ms, i)]]
           firstTime == IF Len(newKeyframes) > 0 THEN newKeyframes[1].time ELSE 0
       IN  CommitAt(Op("loadPattern", selectedDay, 0),
                    [Snapshot EXCEPT
                        !.keyframesByDay = SetDay(keyframesByDay, selectedDay, newKeyframes),
                        !.selectedKeyframe = 0,
                        !.absoluteTime = (selectedDay * CYCLE_DURATION + firstTime) * Sub],
                    FALSE, ms)

----------------------------------------------------------------------------
(* Recipe files and the AI service: documents the component may be handed *)

\* a keyframe of a recipe file; id 0 stands for a missing id
FileKeyframe(id, name, time, grid) ==
    [id |-> id, name |-> name, time |-> time, grid |-> grid, hasGrid |-> TRUE]

\* a keyframe of a recipe file without a grid field
GridlessKeyframe(id, name, time) ==
    [id |-> id, name |-> name, time |-> time, grid |-> <<>>, hasGrid |-> FALSE]

\* a cell of the single-day file format: { red, green, blue, active }
LegacyCell(r, g, b, a) == [red |-> r, green |-> g, blue |-> b, active |-> a]

\* kind: "multi" has keyframesByDay, "legacy" has keyframes, "neither" has none of
\* the two, "unparsable" is not JSON; totalDays and gridSize are the metadata fields,
\* 0 when absent
Recipe(kind, days, totalDaysField, gridSizeField) ==
    [kind |-> kind, days |-> days, totalDays |-> totalDaysField, gridSize |-> gridSizeField]

\* saved by this component at grid size 2 with two days
RecipeConsistent ==
    Recipe("multi",
           << <<FileKeyframe(901, 1, 0, UniformGrid(4, ColourCell))>>,
              <<FileKeyframe(902, 1, 360, UniformGrid(4, WhiteCell))>> >>, 2, 2)

\* no grid size in the metadata, one cell per grid, no id
RecipeStaleGrid ==
    Recipe("multi", << <<FileKeyframe(0, 1, 0, <<ColourCell>>)>> >>, 1, 0)

\* the metadata announce 20 days, the document holds one
RecipeLongSchedule ==
    Recipe("multi", << <<FileKeyframe(903, 1, 0, UniformGrid(4, ColourCell))>> >>, 20, 2)

\* two keyframes of one day with the same id
RecipeSharedIds ==
    Recipe("multi",
           << <<FileKeyframe(904, 1, 0, UniformGrid(4, BlackCell)),
                FileKeyframe(904, 2, 720, UniformGrid(4, WhiteCell))>> >>, 1, 2)

RecipeLegacy ==
    Recipe("legacy", << <<FileKeyframe(905, 1, 0, <<LegacyCell(200, 100, 50, TRUE)>>)>> >>, 0, 1)

\* the second keyframe of the document has no grid
RecipeGridless ==
    Recipe("multi",
           << <<FileKeyframe(906, 1, 0, UniformGrid(4, WhiteCell)),
                GridlessKeyframe(907, 2, 720)>> >>, 1, 2)

RecipeNeither == Recipe("neither", <<>>, 0, 2)

RecipeUnparsable == Recipe("unparsable", <<>>, 0, 0)

Recipes == {RecipeConsistent, RecipeStaleGrid, RecipeLongSchedule, RecipeSharedIds,
            RecipeLegacy, RecipeGridless, RecipeNeither, RecipeUnparsable}

\* number of keyframes in the days before day d
RECURSIVE KeyframesBefore(_, _)
KeyframesBefore(days, d) ==
    IF d <= 1 THEN 0 ELSE KeyframesBefore(days, d - 1) + Len(days[d - 1])

\* lines 689-694: id: kf.id || Date.now() + Math.random(), cells copied field by field
LoadedMultiDay(days, ms) ==
    [d \in 1..Len(days) |->
        ArrayDay([i \in 1..Len(days[d]) |->
            Keyframe(IF days[d][i].id # 0 THEN days[d][i].id
                     ELSE FreshId(ms, KeyframesBefore(days, d) + i),
                     days[d][i].name, days[d][i].time,
                     [c \in 1..Len(days[d][i].grid) |->
                         Cell(days[d][i].grid[c].r, days[d][i].grid[c].g,
                              days[d][i].grid[c].b, days[d][i].grid[c].active)])])]

\* lines 698-701: the single-day format names the channels red, green, blue
LoadedLegacy(kfs, ms) ==
    [i \in 1..Len(kfs) |->
        Keyframe(IF kfs[i].id # 0 THEN kfs[i].id ELSE FreshId(ms, i),
                 kfs[i].name, kfs[i].time,
                 [c \in 1..Len(kfs[i].grid) |->
                     Cell(kfs[i].grid[c].red, kfs[i].grid[c].green,
                          kfs[i].grid[c].blue, kfs[i].grid[c].active)])]

\* some keyframe of the document has no id, so the loader reads the clock for one
MintsIds(recipe) ==
    \E d \in 1..Len(recipe.days) : \E i \in 1..Len(recipe.days[d]) :
        recipe.days[d][i].id = 0

\* kf.grid.map of lines 692 and 700 is called on undefined
LacksGrid(recipe) ==
    /\ recipe.kind \in {"multi", "legacy"}
    /\ \E d \in 1..Len(recipe.days) : \E i \in 1..Len(recipe.days[d]) :
          ~recipe.days[d][i].hasGrid

\* what the document is to the loader
RecipeTag(recipe) == IF LacksGrid(recipe) THEN "gridless" ELSE recipe.kind

\* reader.onload of loadRecipe, lines 685-712, with the resize effect of lines
\* 419-427 when the grid size changed
loadRecipe(recipe) ==
    /\ Ready
    /\ \E ms \in (IF MintsIds(recipe) THEN ClockReadings ELSE {now}) :
       IF recipe.kind = "unparsable" \/ LacksGrid(recipe)
       THEN Commit(OpOn("loadRecipe", RecipeTag(recipe)), Snapshot, TRUE)
       ELSE LET days1 == IF recipe.kind = "multi" THEN LoadedMultiDay(recipe.days, ms)
                         ELSE IF recipe.kind = "legacy"
                         THEN CopiesOf(7, LoadedLegacy(recipe.days[1], ms))
                         ELSE keyframesByDay
                total1 == IF recipe.kind = "multi"
                          THEN (IF recipe.totalDays # 0 THEN recipe.totalDays
                                ELSE Len(recipe.days))
                          ELSE IF recipe.kind = "legacy" THEN 7 ELSE totalDays
                size1 == IF recipe.gridSize # 0 THEN recipe.gridSize ELSE gridSize
            IN  IF size1 # gridSize /\ ResizeThrows(days1)
                THEN Throw(OpOn("loadRecipe", recipe.kind), "render")
                ELSE CommitAt(OpOn("loadRecipe", recipe.kind),
                              [Snapshot EXCEPT
                                  !.keyframesByDay = IF size1 # gridSize
                                                     THEN ResizedDays(days1, size1)
                                                     ELSE days1,
                                  !.totalDays = total1,
                                  !.gridSize = size1,
                                  !.selectedDay = 0,
                                  !.selectedKeyframe = 0,
                                  !.absoluteTime = 0],
                              recipe.kind = "legacy", ms)

\* handleGeneratePattern up to the await of line 307
handleGeneratePattern ==
    /\ Ready
    /\ ~isGenerating
    /\ Commit(Op("handleGeneratePattern", 0, 0),
              [Snapshot EXCEPT !.isGenerating = TRUE,
                               !.aiClosure = [selectedDay |-> selectedDay,
                                              gridSize |-> gridSize]],
              FALSE)

\* what the service returns for a size x size grid: "ok" is an array of two
\* keyframes, the later one first; "empty" is []; "notArray" is a JSON object;
\* "unparsable" is text that JSON.parse rejects; "reject" is a failed call
GeneratedKeyframes(result, size) ==
    IF result = "ok"
    THEN << FileKeyframe(0, 201, 1080, UniformGrid(size * size, ColourCell)),
            FileKeyframe(0, 202, 360, UniformGrid(size * size, WhiteCell)) >>
    ELSE <<>>

AIResults == {"ok", "empty", "notArray", "unparsable", "reject"}

\* handleGeneratePattern from line 316 on without the finally block of line 339
generatePatternSettledWithoutFinally(result) ==
    /\ Ready
    /\ isGenerating
    /\ \E ms \in (IF result = "ok" THEN ClockReadings ELSE {now}) :
       LET generatedKeyframes == GeneratedKeyframes(result, aiClosure.gridSize)
           newKeyframes == SortByTime([i \in 1..Len(generatedKeyframes) |->
                               [generatedKeyframes[i] EXCEPT !.id = FreshId(ms, i)]])
       IN  IF result = "ok" /\ Len(generatedKeyframes) > 0
           THEN CommitAt(OpOn("generatePatternSettled", result),
                       [Snapshot EXCEPT
                           !.keyframesByDay =
                               SetDay(keyframesByDay, aiClosure.selectedDay, newKeyframes),
                           !.selectedKeyframe = 0,
                           !.absoluteTime = (aiClosure.selectedDay * CYCLE_DURATION
                                             + newKeyframes[1].time) * Sub,
                           !.aiClosure = NoClosure],
                       FALSE, ms)
           ELSE Commit(OpOn("generatePatternSettled", result),
                       [Snapshot EXCEPT !.aiClosure = NoClosure],
                       TRUE)

\* handleGeneratePattern from line 316 on, when the request settles
generatePatternSettled(result) ==
    /\ Ready
    /\ isGenerating
    /\ \E ms \in (IF result = "ok" THEN ClockReadings ELSE {now}) :
       LET generatedKeyframes == GeneratedKeyframes(result, aiClosure.gridSize)
           newKeyframes == SortByTime([i \in 1..Len(generatedKeyframes) |->
                               [generatedKeyframes[i] EXCEPT !.id = FreshId(ms, i)]])
       IN  IF result = "ok" /\ Len(generatedKeyframes) > 0
           THEN CommitAt(OpOn("generatePatternSettled", result),
                       [Snapshot EXCEPT
                           !.keyframesByDay =
                               SetDay(keyframesByDay, aiClosure.selectedDay, newKeyframes),
                           !.selectedKeyframe = 0,
                           !.absoluteTime = (aiClosure.selectedDay * CYCLE_DURATION
                                             + newKeyframes[1].time) * Sub,
                           !.isGenerating = FALSE,
                           !.aiClosure = NoClosure],
                       FALSE, ms)
           ELSE Commit(OpOn("generatePatternSettled", result),
                       [Snapshot EXCEPT !.isGenerating = FALSE, !.aiClosure = NoClosure],
                       TRUE)

----------------------------------------------------------------------------
(* Inputs of the operations *)

CellIndices == {0}

\* the delete buttons and the time and name fields of the rendered keyframes
RenderedIds == {keyframes[i].id : i \in 1..Len(keyframes)}

\* an id that no keyframe carries
AbsentId == 0 - 1

TimeInputs == {0 - 1, 1500}

NameInputs == {7}

DayCountInputs == {0, 3, 15}

GridSizeInputs == {4, 8}

DayButtons == {0, totalDays - 1}

ScrubInputs == {360, CYCLE_DURATION + 720}

TickIncrements == {1, 720 * Sub + 1}

\* an editing session: the operations of the user on the schedule and the cursor
Next ==
    \/ \E index \in CellIndices : handleCellClick(index)
    \/ fillAll
    \/ clearAll
    \/ addKeyframe
    \/ \E id \in RenderedIds \cup {AbsentId} : deleteKeyframe(id)
    \/ \E index \in 0..(Len(keyframes) - 1) : loadKeyframe(index)
    \/ \E id \in RenderedIds : \E newTime \in TimeInputs : updateKeyframeTime(id, newTime)
    \/ \E id \in RenderedIds : \E newName \in NameInputs : updateKeyframeName(id, newName)
    \/ copyDayToAll
    \/ \E newDayCount \in DayCountInputs : handleTotalDaysChange(newDayCount)
    \/ \E size \in GridSizeInputs : setGridSize(size)
    \/ \E index \in DayButtons : selectDay(index)
    \/ \E minutes \in ScrubInputs : scrub(minutes)
    \/ togglePlay
    \/ \E timeIncrement \in TickIncrements : animate(timeIncrement)

Spec == Init /\ [][Next]_vars

\* pattern, recipe and AI loads, with the operations of the user that meet them
LoadNext ==
    \/ handlePatternSelect
    \/ \E recipe \in Recipes : loadRecipe(recipe)
    \/ handleGeneratePattern
    \/ \E result \in AIResults : generatePatternSettled(result)
    \/ \E index \in CellIndices : handleCellClick(index)
    \/ addKeyframe
    \/ \E id \in RenderedIds \cup {AbsentId} : deleteKeyframe(id)
    \/ \E index \in {Len(keyframes)} : loadKeyframe(index)
    \/ \E newTime \in {1500} : updateKeyframeTime(AbsentId, newTime)
    \/ \E newName \in NameInputs : updateKeyframeName(AbsentId, newName)
    \/ copyDayToAll
    \/ \E newDayCount \in DayCountInputs : handleTotalDaysChange(newDayCount)
    \/ \E size \in GridSizeInputs : setGridSize(size)
    \/ \E index \in DayButtons : selectDay(index)

LoadSpec == Init /\ [][LoadNext]_vars

\* a run one operation longer, for an AI request with user actions before and after it
AIInit == Construction /\ ops = MaxOps + 1

\* AI generation, with the operations of the user that may come while it is pending
AINext ==
    \/ handleGeneratePattern
    \/ \E result \in AIResults : generatePatternSettled(result)
    \/ \E newDayCount \in DayCountInputs : handleTotalDaysChange(newDayCount)
    \/ \E size \in GridSizeInputs : setGridSize(size)
    \/ \E index \in DayButtons : selectDay(index)
    \/ togglePlay
    \/ \E timeIncrement \in TickIncrements : animate(timeIncrement)

AISpec == AIInit /\ [][AINext]_vars

\* a run two operations longer, for edits of a day past the end of a loaded schedule
SparseInit == Construction /\ ops = MaxOps + 2

SparseNext ==
    \/ \E recipe \in {RecipeLongSchedule} : loadRecipe(recipe)
    \/ \E index \in DayButtons : selectDay(index)
    \/ addKeyframe
    \/ \E index \in CellIndices : handleCellClick(index)
    \/ \E size \in GridSizeInputs : setGridSize(size)

SparseSpec == SparseInit /\ [][SparseNext]_vars

----------------------------------------------------------------------------
(* The serial link: connecting, streaming and disconnecting, in a browser  *)
(* with the Web Serial API.                                                *)

\* seq without its i-th element
Settled(seq, i) == SubSeq(seq, 1, i - 1) \o SubSeq(seq, i + 1, Len(seq))

\* the port that port.open() opens next and its writer: a number no pending call knows
FreshWriter ==
    LET known == {portWriter} \cup closing \cup {writes[i].writer : i \in 1..Len(writes)}
    IN  1 + CHOOSE m \in known : \A w \in known : w <= m

\* handleConnect up to its first await, lines 388-396; the button is shown while not
\* connected and disabled while connecting, lines 923-924
handleConnect ==
    /\ Ready
    /\ connectionStatus \notin {"connected", "connecting"}
    /\ LinkCommit(Op("handleConnect", 0, 0),
                  [Snapshot EXCEPT !.connectionStatus = "connecting",
                                   !.connecting = Append(@, connectionStatus)])

\* the rest of the i-th pending handleConnect: the port opened, lines 397-400, or
\* requestPort or open rejected, lines 401-405
connectSettled(i, opened) ==
    /\ Ready
    /\ i \in 1..Len(connecting)
    /\ LinkCommit(OpOn("connectSettled", IF opened THEN "opened" ELSE "rejected"),
                  IF opened
                  THEN [Snapshot EXCEPT !.serialPort = FreshWriter,
                                        !.portWriter = FreshWriter,
                                        !.connectionStatus = "connected",
                                        !.connecting = Settled(@, i)]
                  ELSE [Snapshot EXCEPT !.connectionStatus = "error",
                                        !.connecting = Settled(@, i),
                                        !.resetTimers =
                                            IF connecting[i] = "error" THEN @ + 1 ELSE @])

\* the timeout of line 405 in a closure that holds connectionStatus 'error'
resetTimerFires ==
    /\ Ready
    /\ resetTimers > 0
    /\ LinkCommit(Op("resetTimerFires", 0, 0),
                  [Snapshot EXCEPT !.connectionStatus = "disconnected",
                                   !.resetTimers = @ - 1])

\* a handleDisconnect that does nothing
DisconnectSkipped(op, writer, l) == LinkCommit(op, l)

\* handleDisconnect of a render whose portWriter is writer, up to its first await,
\* lines 345-349; without a writer and a port it sets the state at once
DisconnectCalled(op, writer, l) ==
    IF writer # NoWriter
    THEN LinkCommit(op, [l EXCEPT !.closing = @ \cup {writer}])
    ELSE LinkCommit(op, [l EXCEPT !.portWriter = NoWriter, !.serialPort = NoPort,
                                  !.connectionStatus = "disconnected"])

\* the Disconnect button, shown while connected, line 928
handleDisconnect ==
    /\ Ready
    /\ connectionStatus = "connected"
    /\ DisconnectCalled(Op("handleDisconnect", portWriter, 0), portWriter, Snapshot)

\* the rest of a handleDisconnect call, lines 356-358
disconnectSettled(writer) ==
    /\ Ready
    /\ writer \in closing
    /\ LinkCommit(Op("disconnectSettled", writer, 0),
                  [Snapshot EXCEPT !.portWriter = NoWriter, !.serialPort = NoPort,
                                   !.connectionStatus = "disconnected",
                                   !.closing = @ \ {writer}])

\* the promise of the i-th pending write settles, the oldest of its writer: resolved,
\* or rejected, and then the catch of lines 382-385 calls the handleDisconnect of the
\* render that made the call
writeSettled(i, written) ==
    /\ Ready
    /\ i \in 1..Len(writes)
    /\ \A j \in 1..(i - 1) : writes[j].writer # writes[i].writer
    /\ IF written
       THEN LinkCommit([Op("writeSettled", writes[i].writer, 0)
                           EXCEPT !.tag = "resolved"],
                       [Snapshot EXCEPT !.writes = Settled(@, i)])
       ELSE DisconnectCalled([Op("writeSettled", writes[i].writer, 0)
                                 EXCEPT !.tag = "rejected"], writes[i].writer,
                             [Snapshot EXCEPT !.writes = Settled(@, i)])

\* the brightness slider, line 950
setMasterBrightness(level) ==
    /\ Ready
    /\ level # masterBrightness
    /\ LinkCommit(Op("setMasterBrightness", level, 0),
                  [Snapshot EXCEPT !.masterBrightness = level])

\* more than Throttle ms pass without an event
wait ==
    /\ Ready
    /\ now + Throttle + 1 <= MaxNow * (Throttle + 1)
    /\ now' = now + Throttle + 1
    /\ lastOp' = Op("wait", Throttle + 1, 0)
    /\ pre' = Snapshot
    /\ ops' = ops - 1
    /\ UNCHANGED <<gridSize, currentGrid, absoluteTime, totalDays, keyframesByDay,
                   selectedDay, selectedKeyframe, isPlaying, animationFrame, isGenerating,
                   aiClosure, alerted, failure, link, writes, lastUpdateTime,
                   programs>>

\* a run two operations longer, for a connection, a stream and its failure
DeviceInit == Construction /\ ops = MaxOps + 2

DeviceNext ==
    \/ handleConnect
    \/ \E i \in 1..Len(connecting) : \E opened \in BOOLEAN : connectSettled(i, opened)
    \/ resetTimerFires
    \/ handleDisconnect
    \/ \E writer \in closing : disconnectSettled(writer)
    \/ \E i \in 1..Len(writes) : \E written \in BOOLEAN : writeSettled(i, written)
    \/ \E level \in {50} : setMasterBrightness(level)
    \/ \E minutes \in {360} : scrub(minutes)
    \/ \E size \in {4} : setGridSize(size)
    \/ wait

DeviceSpec == DeviceInit /\ [][DeviceNext]_vars

\* a run four operations longer, for two failed attempts to connect, a third that
\* succeeds, and the timeout of the second
LinkInit == Construction /\ ops = MaxOps + 4

\* the operations on the serial link alone, and the brightness slider, which makes
\* the stream send a frame
LinkNext ==
    \/ handleConnect
    \/ \E i \in 1..Len(connecting) : \E opened \in BOOLEAN : connectSettled(i, opened)
    \/ resetTimerFires
    \/ handleDisconnect
    \/ \E writer \in closing : disconnectSettled(writer)
    \/ \E i \in 1..Len(writes) : \E written \in BOOLEAN : writeSettled(i, written)
    \/ \E level \in {50} : setMasterBrightness(level)

LinkSpec == LinkInit /\ [][LinkNext]_vars

----------------------------------------------------------------------------
(* The frame encoder as a function of its inputs: a connected component     *)
(* with every grid of up to MaxCells cells over EncoderCells, both grid     *)
(* sizes of SampleSizes and every brightness of BrightnessInputs.           *)

MaxCells == 5

\* a cell beyond the byte range, as a recipe or a generated pattern may hold
WideCell == Cell(300, 0 - 1, 256, TRUE)

\* a cell whose channels meet the half-integers of BelowHalf
HalfCell == Cell(50, 90, 25, TRUE)

EncoderCells ==
    {BlackCell, WhiteCell, ColourCell, Cell(200, 100, 50, FALSE), HalfCell, WideCell}

\* the grids a, b, a, b, ... of n cells
EncoderGrids ==
    { [i \in 1..n |-> IF i % 2 = 1 THEN a ELSE b] :
          n \in 0..MaxCells, a \in EncoderCells, b \in EncoderCells }

BrightnessInputs == {0, 29, 35, 50, 58, 100}

EncoderInit ==
    /\ gridSize \in SampleSizes
    /\ currentGrid \in EncoderGrids
    /\ masterBrightness \in BrightnessInputs
    /\ keyframesByDay = <<ArrayDay(<<>>)>>
    /\ absoluteTime = 0
    /\ totalDays = 1
    /\ selectedDay = 0
    /\ selectedKeyframe = 0
    /\ isPlaying = FALSE
    /\ animationFrame = FALSE
    /\ isGenerating = FALSE
    /\ aiClosure = NoClosure
    /\ serialPort = 1
    /\ portWriter = 1
    /\ connectionStatus = "connected"
    /\ connecting = <<>>
    /\ closing = {}
    /\ resetTimers = 0
    /\ writes = <<>>
    /\ lastUpdateTime = 0 - (Throttle + 1)
    /\ Unprogrammed
    /\ now = 0
    /\ alerted = FALSE
    /\ failure = "none"
    /\ lastOp = Op("init", 0, 0)
    /\ pre = Snapshot
    /\ ops = 1

\* sendGridToArduino(grid), lines 361-379, up to the call of portWriter.write
sendGridToArduino(grid) ==
    /\ ops > 0
    /\ portWriter # NoWriter
    /\ writes' = Append(writes,
                        Write(portWriter, EncodeFrame(grid, gridSize, masterBrightness)))
    /\ lastOp' = Op("sendGridToArduino", Len(grid), 0)
    /\ pre' = Snapshot
    /\ ops' = ops - 1
    /\ UNCHANGED <<gridSize, currentGrid, absoluteTime, totalDays, keyframesByDay,
                   selectedDay, selectedKeyframe, isPlaying, animationFrame, isGenerating,
                   aiClosure, now, alerted, failure, link, lastUpdateTime,
                   programs>>

EncoderNext == sendGridToArduino(currentGrid)

EncoderSpec == EncoderInit /\ [][EncoderNext]_vars

----------------------------------------------------------------------------
(* The spectral analysis of the resolved grid, lines 464-484: a memoised     *)
(* value of the render, computed from currentGrid alone.                     *)

MaxActive == 3

\* currentGrid.filter(c => c.active), line 465
ActiveCells(grid) == SelectSeq(grid, LAMBDA c : c.active)

\* activeCells.reduce of lines 467-470 for the channels r, g, b
RECURSIVE Totals(_)
Totals(cells) ==
    IF cells = <<>> THEN [r |-> 0, g |-> 0, b |-> 0]
    ELSE LET rest == Totals(Tail(cells))
         IN  [r |-> rest.r + Head(cells).r, g |-> rest.g + Head(cells).g,
              b |-> rest.b + Head(cells).b]

\* avgA > avgB * threshold of lines 478-480 with threshold 1.3, for the averages
\* a / n and b / n; the doubles compare as the rationals do for up to four cells of
\* channels 0..255
Exceeds(a, b) == 10 * a > 13 * b

\* the totals low of three cells of channels 0..255 for which the doubles low / 3
\* and (low + 75) / 3 differ by less than 25; no such total exists for one, two or
\* four cells
RoundsBelow25 ==
    {23, 50, 53, 56, 59, 62, 65, 68, 71, 74, 77, 80, 83, 86, 89, 92, 95, 118, 121,
     124, 127, 130, 133, 136, 139, 142, 145, 148, 151, 154, 157, 160, 163, 166, 169,
     172, 175, 178, 181, 184, 187, 190, 311, 314, 317, 320, 323, 326, 329, 332, 335,
     338, 341, 344, 347, 350, 353, 356, 359, 362, 365, 368, 371, 374, 377, 380, 383}

\* Math.abs(avgA - avgB) < 25 of line 481 for the averages a / n and b / n
Within25(a, b, n) ==
    LET low == IF a < b THEN a ELSE b
        high == IF a < b THEN b ELSE a
    IN  \/ high - low < 25 * n
        \/ high - low = 25 * n /\ n = 3 /\ low \in RoundsBelow25

\* an average as the pair <<total, number of cells>>
Average(total, n) == <<total, n>>

\* useMemo of lines 464-484
liveAnalysis(grid) ==
    LET activeCells == ActiveCells(grid)
        n == Len(activeCells)
        totals == Totals(activeCells)
    IN  IF n = 0
        THEN [dominantSpectrum |-> "Off", avgR |-> Average(0, 1), avgG |-> Average(0, 1),
              avgB |-> Average(0, 1)]
        ELSE [dominantSpectrum |->
                  IF Exceeds(totals.r, totals.g) /\ Exceeds(totals.r, totals.b)
                  THEN "Red Dominant"
                  ELSE IF Exceeds(totals.g, totals.r) /\ Exceeds(totals.g, totals.b)
                  THEN "Green Dominant"
                  ELSE IF Exceeds(totals.b, totals.r) /\ Exceeds(totals.b, totals.g)
                  THEN "Blue Dominant"
                  ELSE IF /\ Within25(totals.r, totals.g, n)
                          /\ Within25(totals.r, totals.b, n)
                          /\ totals.r > 200 * n
                  THEN "Full Spectrum"
                  ELSE "Balanced",
              avgR |-> Average(totals.r, n), avgG |-> Average(totals.g, n),
              avgB |-> Average(totals.b, n)]

\* cells on the thresholds of the classification: the primaries, white, an inactive
\* red, red exactly 1.3 times the others, green 25 below the others, a red above 200
\* over green and blue below it, green and blue 48 apart around a red above 200
AnalysisCells ==
    {Cell(255, 0, 0, TRUE), Cell(0, 255, 0, TRUE), Cell(0, 0, 255, TRUE),
     Cell(255, 255, 255, TRUE), Cell(255, 0, 0, FALSE), Cell(130, 100, 100, TRUE),
     Cell(230, 205, 230, TRUE), Cell(201, 180, 180, TRUE), Cell(224, 200, 248, TRUE)}

AnalysisGrids ==
    UNION { [1..n -> AnalysisCells] : n \in 0..MaxActive }

AnalysisInit ==
    /\ gridSize = 2
    /\ currentGrid \in AnalysisGrids
    /\ keyframesByDay = <<ArrayDay(<<>>)>>
    /\ absoluteTime = 0
    /\ totalDays = 1
    /\ selectedDay = 0
    /\ selectedKeyframe = 0
    /\ isPlaying = FALSE
    /\ animationFrame = FALSE
    /\ isGenerating = FALSE
    /\ aiClosure = NoClosure
    /\ Unconnected
    /\ Unprogrammed
    /\ now = 0
    /\ alerted = FALSE
    /\ failure = "none"
    /\ lastOp = Op("init", 0, 0)
    /\ pre = Snapshot
    /\ ops = 1

\* a render that evaluates the memo of lines 464-484
analyse ==
    /\ ops > 0
    /\ lastOp' = OpOn("liveAnalysis", liveAnalysis(currentGrid).dominantSpectrum)
    /\ pre' = Snapshot
    /\ ops' = ops - 1
    /\ UNCHANGED <<gridSize, currentGrid, absoluteTime, totalDays, keyframesByDay,
                   selectedDay, selectedKeyframe, isPlaying, animationFrame, isGenerating,
                   aiClosure, now, alerted, failure, link, writes, lastUpdateTime,
                   programs>>

AnalysisNext == analyse

AnalysisSpec == AnalysisInit /\ [][AnalysisNext]_vars

----------------------------------------------------------------------------
(* The sampler of the single-day variant, lines 1140-1205: the interpolation *)
(* of lines 1143-1177 is that of lines 204-238; the boost programs are then  *)
(* added to its grid.                                                        *)

\* lines 1182-1185 for one channel's program, with hour = time / 60 and time in
\* 1/Sub minutes
Boost(program, time) ==
    IF program.morning /\ time >= 6 * 60 * Sub /\ time < 12 * 60 * Sub THEN 50
    ELSE IF program.midday /\ time >= 12 * 60 * Sub /\ time < 18 * 60 * Sub THEN 50
    ELSE IF program.evening /\ time >= 18 * 60 * Sub /\ time < 22 * 60 * Sub THEN 30
    ELSE IF program.night /\ (time >= 22 * 60 * Sub \/ time < 6 * 60 * Sub) THEN 10
    ELSE 0

\* Math.min(255, n)
Min255(n) == IF n < 255 THEN n ELSE 255

\* lines 1197-1202 without Math.min
BoostedGridUnclamped(initialGrid, time) ==
    [i \in 1..Len(initialGrid) |->
        [initialGrid[i] EXCEPT !.r = @ + Boost(redProgram, time),
                               !.g = @ + Boost(greenProgram, time),
                               !.b = @ + Boost(blueProgram, time)]]

\* finalGrid, lines 1197-1202
BoostedGrid(initialGrid, time) ==
    [i \in 1..Len(initialGrid) |->
        [initialGrid[i] EXCEPT !.r = Min255(@ + Boost(redProgram, time)),
                               !.g = Min255(@ + Boost(greenProgram, time)),
                               !.b = Min255(@ + Boost(blueProgram, time))]]

\* a cell whose channels reach 255 under some boosts and not under others
BoostCell == Cell(230, 100, 250, TRUE)

\* the keyframe lists of the variant: none, one keyframe, two keyframes half a day
\* apart with an inactive black one first
BoostLists ==
    { <<>>,
      <<Keyframe(1, 1, 0, <<BoostCell>>)>>,
      <<Keyframe(1, 1, 0, <<BlackCell>>), Keyframe(2, 2, 720, <<BoostCell>>)>> }

\* query times in 1/Sub minutes: the band boundaries at 6, 12, 18 and 22 hours, the
\* instants 1/Sub minute before them, midnight and the end of the cycle
BoostQueries ==
    {0, 360 * Sub - 1, 360 * Sub, 720 * Sub - 1, 720 * Sub, 1080 * Sub - 1, 1080 * Sub,
     1320 * Sub - 1, 1320 * Sub, CYCLE_DURATION * Sub - 1}

ProgramInputs ==
    {Program(FALSE, FALSE, FALSE, FALSE), Program(TRUE, TRUE, TRUE, TRUE),
     Program(TRUE, FALSE, FALSE, FALSE), Program(FALSE, TRUE, FALSE, TRUE),
     Program(FALSE, FALSE, TRUE, FALSE)}

BoostInit ==
    /\ gridSize = 1
    /\ \E l \in BoostLists : keyframesByDay = <<ArrayDay(l)>>
    /\ absoluteTime \in BoostQueries
    /\ redProgram \in ProgramInputs
    /\ greenProgram \in ProgramInputs
    /\ blueProgram \in ProgramInputs
    /\ totalDays = 1
    /\ currentGrid = <<>>
    /\ selectedDay = 0
    /\ selectedKeyframe = 0
    /\ isPlaying = FALSE
    /\ animationFrame = FALSE
    /\ isGenerating = FALSE
    /\ aiClosure = NoClosure
    /\ now = 0
    /\ alerted = FALSE
    /\ failure = "none"
    /\ Unconnected
    /\ lastOp = Op("init", 0, 0)
    /\ pre = Snapshot
    /\ ops = 1

\* useEffect of lines 1426-1428 of the variant: updateGridFromTimeline(currentTime),
\* which returns at line 1141 when there is no keyframe
SingleDayRenderEffect ==
    /\ lastOp.op = "init"
    /\ currentGrid' =
          IF Len(DayKeyframes(keyframesByDay, 0)) = 0 THEN currentGrid
          ELSE BoostedGrid(UpdateGridFromTimeline(gridSize, keyframesByDay, currentTime, 0),
                           currentTime)
    /\ lastOp' = Op("singleDayUpdateGridFromTimeline", currentTime, 0)
    /\ pre' = Snapshot
    /\ ops' = ops - 1
    /\ UNCHANGED <<gridSize, absoluteTime, totalDays, keyframesByDay, selectedDay,
                   selectedKeyframe, isPlaying, animationFrame, isGenerating, aiClosure,
                   now, alerted, failure, link, writes, lastUpdateTime, programs>>

BoostNext == SingleDayRenderEffect

BoostSpec == BoostInit /\ [][BoostNext]_vars

-----------------------------------------------------------------------------
(* Properties of the schedule store *)

\* the keyframe lists of the days that hold one
ArrayDays == {d \in 1..Len(keyframesByDay) : keyframesByDay[d].kind = "array"}

\* the keyframes of the selected day before the last operation
PreKeyframes == DayKeyframes(pre.keyframesByDay, pre.selectedDay)

\* C6: in every reachable state every keyframe's grid in every day has exactly
\* gridSize * gridSize cells.
C6_GridLengthIsGridSizeSquared ==
    \A d \in ArrayDays : \A k \in 1..Len(keyframesByDay[d].kfs) :
        Len(keyframesByDay[d].kfs[k].grid) = gridSize * gridSize

\* C7: no sequence of operations, started with a keyframe in every day, reaches a
\* state in which some day's keyframe list has zero keyframes.
C7_DayIsNeverEmpty ==
    \A d \in ArrayDays : Len(keyframesByDay[d].kfs) >= 1

\* C8: deleteKeyframe, with any id, on a selected day of exactly one keyframe leaves
\* that day's list and the whole schedule unchanged, the count at 1, and raises
\* no error.
C8_SoleKeyframeIsKept ==
    (lastOp.op = "deleteKeyframe" /\ Len(PreKeyframes) = 1)
        => /\ keyframesByDay = pre.keyframesByDay
           /\ Len(DayKeyframes(keyframesByDay, pre.selectedDay)) = 1
           /\ failure = "none"

\* deleteKeyframe has been called with the id of the only keyframe of the selected day
C8_Witness ==
    /\ lastOp.op = "deleteKeyframe"
    /\ Len(PreKeyframes) = 1
    /\ lastOp.a = PreKeyframes[1].id
    /\ Len(keyframes) = 1

\* C9: in every reachable state the number of days of the schedule,
\* keyframesByDay.length, equals totalDays.
C9_ScheduleLengthIsTotalDays == Len(keyframesByDay) = totalDays

\* C10: in every reachable state totalDays is an integer of 1..14; no operation,
\* recipe load included, sets it outside.
C10_TotalDaysInRange == totalDays \in MinDays..MaxDays

\* the slot of day d (1-based) of a schedule; a slot past the end reads as undefined
DayAt(days, d) == IF d \in 1..Len(days) THEN days[d] ELSE UndefinedDay

\* the names, times and grids of a day, without the ids
Content(day) ==
    [kind |-> day.kind,
     kfs |-> [k \in 1..Len(day.kfs) |->
                 [name |-> day.kfs[k].name, time |-> day.kfs[k].time,
                  grid |-> day.kfs[k].grid]]]

\* the operations that edit the keyframes of the selected day
DayEdits ==
    {"handleCellClick", "fillAll", "clearAll", "addKeyframe", "deleteKeyframe",
     "updateKeyframeTime", "updateKeyframeName"}

\* what keyframesByDay[d - 1] reads: the day, or undefined for a hole and past the end
ReadDay(days, d) == IF DayAt(days, d).kind = "array" THEN DayAt(days, d) ELSE UndefinedDay

\* every day but the one selected when the last operation was invoked reads as before
OtherDaysUnchanged ==
    \A d \in 1..(Len(keyframesByDay) + Len(pre.keyframesByDay)) :
        d # pre.selectedDay + 1 => ReadDay(keyframesByDay, d) = ReadDay(pre.keyframesByDay, d)

\* C11: raising totalDays from m to n > m leaves days 0..m-1 unchanged and makes every
\* new day m..n-1 a copy (names, times, grids) of the prior last day m-1; lowering it
\* to n keeps exactly days 0..n-1, unchanged; and an edit of one day (paint, rename,
\* time change, delete) changes no other day.
C11_DayCountChangeAndIndependence ==
    /\ (lastOp.op = "handleTotalDaysChange" /\ failure = "none") =>
          LET m == pre.totalDays
              n == ClampDays(lastOp.a)
          IN  /\ n > m =>
                    /\ Len(keyframesByDay) = n
                    /\ \A d \in 1..m : DayAt(keyframesByDay, d) = DayAt(pre.keyframesByDay, d)
                    /\ \A d \in (m + 1)..n :
                          Content(DayAt(keyframesByDay, d))
                              = Content(DayAt(pre.keyframesByDay, m))
              /\ n < m =>
                    /\ Len(keyframesByDay) = n
                    /\ \A d \in 1..n : DayAt(keyframesByDay, d) = DayAt(pre.keyframesByDay, d)
    /\ (lastOp.op \in DayEdits /\ failure = "none") => OtherDaysUnchanged

\* the ids of the keyframes of day d (1-based)
IdsOfDay(days, d) == {DayAt(days, d).kfs[k].id : k \in 1..Len(DayAt(days, d).kfs)}

\* C12: after handleTotalDaysChange has grown the schedule, no keyframe id of a newly
\* created day equals the id of a keyframe of another day.
C12_NewDaysHaveFreshIds ==
    (lastOp.op = "handleTotalDaysChange" /\ Len(keyframesByDay) > Len(pre.keyframesByDay)) =>
        \A d \in (Len(pre.keyframesByDay) + 1)..Len(keyframesByDay) :
            \A e \in 1..Len(keyframesByDay) :
                e # d => IdsOfDay(keyframesByDay, d) \cap IdsOfDay(keyframesByDay, e) = {}

\* C13: in every reachable state 0 <= absoluteTime < CYCLE_DURATION * totalDays,
\* after playback ticks and after every other write of the cursor.
C13_CursorInRange ==
    /\ 0 <= absoluteTime
    /\ absoluteTime < CYCLE_DURATION * totalDays * Sub

\* C14: in every reachable state 0 <= selectedDay < totalDays and
\* keyframesByDay[selectedDay] exists.
C14_SelectedDayIsValid ==
    /\ 0 <= selectedDay
    /\ selectedDay < totalDays
    /\ DayAt(keyframesByDay, selectedDay + 1).kind = "array"

\* number of places of seq that hold x
Count(seq, x) == Cardinality({j \in 1..Len(seq) : seq[j] = x})

\* the two lists hold the same keyframes, each as many times
SameKeyframes(s, t) ==
    /\ Len(s) = Len(t)
    /\ \A j \in 1..Len(s) : Count(s, s[j]) = Count(t, s[j])

\* seq without its i-th element
RemoveAt(seq, i) == SubSeq(seq, 1, i - 1) \o SubSeq(seq, i + 1, Len(seq))

IsSortedByTime(kfs) == \A i \in 1..(Len(kfs) - 1) : kfs[i].time <= kfs[i + 1].time

\* the keyframes of the day selected when the last operation was invoked, after it
PostKeyframes == DayKeyframes(keyframesByDay, pre.selectedDay)

\* C15: addKeyframe leaves in the selected day exactly the previous keyframes and one
\* new keyframe, whose time is floor(currentTime) and whose grid is the resolved grid;
\* the list is sorted by time if it was before; no other day changes.
C15_AddKeyframeEffect ==
    (lastOp.op = "addKeyframe" /\ failure = "none") =>
        /\ \E i \in 1..Len(PostKeyframes) :
              /\ PostKeyframes[i].time = CurrentTime(pre.absoluteTime) \div Sub
              /\ PostKeyframes[i].grid = pre.currentGrid
              /\ SameKeyframes(RemoveAt(PostKeyframes, i), PreKeyframes)
        /\ IsSortedByTime(PreKeyframes) => IsSortedByTime(PostKeyframes)
        /\ OtherDaysUnchanged

\* a keyframe has been added between two others, at a cursor that is not their time
C15_Witness ==
    /\ lastOp.op = "addKeyframe"
    /\ Len(PreKeyframes) = 2
    /\ Len(keyframes) = 3
    /\ keyframes[2].id = lastOp.a
    /\ keyframes[1].time < keyframes[2].time
    /\ keyframes[2].time < keyframes[3].time

\* C16: in every reachable state no two keyframes of the same day have the same id.
C16_IdsUniqueWithinDay ==
    \A d \in ArrayDays :
        \A i, j \in 1..Len(keyframesByDay[d].kfs) :
            i # j => keyframesByDay[d].kfs[i].id # keyframesByDay[d].kfs[j].id

\* C17: updateKeyframeTime(id, newTime) sets the time of the target keyframe to newTime
\* clamped into 0..CYCLE_DURATION - 1, leaves the fields of every other keyframe
\* unchanged, and leaves the list of the selected day sorted by time.
C17_UpdateTimeClampsAndSorts ==
    (lastOp.op = "updateKeyframeTime" /\ failure = "none") =>
        /\ \E i \in 1..Len(PreKeyframes) :
              /\ PreKeyframes[i].id = lastOp.a
              /\ SameKeyframes(PostKeyframes,
                               [PreKeyframes EXCEPT ![i].time =
                                   IF lastOp.b < 0 THEN 0
                                   ELSE IF lastOp.b > CYCLE_DURATION - 1
                                        THEN CYCLE_DURATION - 1 ELSE lastOp.b])
        /\ IsSortedByTime(PostKeyframes)

\* the last operation was addressed to a keyframe or a day that did not exist
NonexistentTarget ==
    \/ /\ lastOp.op \in {"deleteKeyframe", "updateKeyframeTime", "updateKeyframeName"}
       /\ \A i \in 1..Len(PreKeyframes) : PreKeyframes[i].id # lastOp.a
    \/ /\ lastOp.op = "loadKeyframe"
       /\ lastOp.a \notin 0..(Len(PreKeyframes) - 1)
    \/ /\ lastOp.op \in {"handleCellClick", "fillAll", "clearAll"}
       /\ pre.selectedKeyframe \notin 0..(Len(PreKeyframes) - 1)
    \/ /\ lastOp.op \in (DayEdits \ {"addKeyframe"}) \cup {"loadKeyframe"}
       /\ DayAt(pre.keyframesByDay, pre.selectedDay + 1).kind # "array"

\* C18: a store operation addressed to a nonexistent keyframe id, keyframe index or
\* day index raises nothing and leaves the number of days and the keyframes of every
\* day, in their order, unchanged.
C18_NonexistentTargetIsNoOp ==
    NonexistentTarget =>
        /\ failure = "none"
        /\ Len(keyframesByDay) = Len(pre.keyframesByDay)
        /\ \A d \in 1..Len(keyframesByDay) :
              ReadDay(keyframesByDay, d) = ReadDay(pre.keyframesByDay, d)

\* the cell that index i (1-based) of a grid rebuilt from `old` holds
CopiedOrPadded(old, i) == IF i <= Len(old) THEN old[i] ELSE BlackCell

\* the keyframes kfs are the keyframes old with every grid rebuilt to length n
RebuiltFrom(kfs, old, n) ==
    /\ Len(kfs) = Len(old)
    /\ \A k \in 1..Len(kfs) :
          /\ kfs[k] = [old[k] EXCEPT !.grid = kfs[k].grid]
          /\ Len(kfs[k].grid) = n
          /\ \A i \in 1..n : kfs[k].grid[i] = CopiedOrPadded(old[k].grid, i)

\* the grid `shrunk`, cut from `before`, grown back to length n: the cells that
\* survived the shrink as they were before it, inactive black after them
RoundTrip(before, shrunk, n) ==
    LET back == ResizedGrid(shrunk, n)
    IN  /\ Len(back) = n
        /\ \A i \in 1..n :
              back[i] = IF i <= Len(shrunk) THEN CopiedOrPadded(before, i) ELSE BlackCell

\* C19: a change of the grid dimension rebuilds the grid of every keyframe of every
\* day to the square of the new dimension, copying the cells by index and padding
\* with inactive black; and a grid shrunk from dimension d1 to d2, when grown back to
\* d1, holds its original cells below index d2 * d2 and inactive black from there on.
C19_ResizePreservesByIndex ==
    lastOp.op = "setGridSize" =>
        /\ failure = "none"
        /\ gridSize = lastOp.a
        /\ Len(keyframesByDay) = Len(pre.keyframesByDay)
        /\ \A d \in 1..Len(keyframesByDay) :
              /\ keyframesByDay[d].kind = pre.keyframesByDay[d].kind
              /\ keyframesByDay[d].kind = "array" =>
                    /\ RebuiltFrom(keyframesByDay[d].kfs, pre.keyframesByDay[d].kfs,
                                   gridSize * gridSize)
                    /\ gridSize < pre.gridSize =>
                          \A k \in 1..Len(keyframesByDay[d].kfs) :
                             RoundTrip(pre.keyframesByDay[d].kfs[k].grid,
                                       keyframesByDay[d].kfs[k].grid,
                                       pre.gridSize * pre.gridSize)

\* the operations that set the cursor by scrubbing, by selecting a day or by a load
\* (of a keyframe, a pattern, a recipe or a generated pattern)
ScrubDayOrLoad ==
    {"scrub", "selectDay", "loadKeyframe", "loadPattern", "loadRecipe",
     "generatePatternSettled"}

\* no frame is due while paused; a frame runs only from a playing state and advances
\* the cursor from the value it had; pausing and resuming leave the cursor alone; an
\* operation on a paused component changes the cursor only if it is one of setters
PausedKeepsCursor(setters) ==
    /\ ~isPlaying => ~animationFrame
    /\ lastOp.op = "animate" =>
          /\ pre.isPlaying
          /\ absoluteTime = (pre.absoluteTime + lastOp.a)
                               % (CYCLE_DURATION * pre.totalDays * Sub)
    /\ lastOp.op = "togglePlay" =>
          /\ isPlaying = ~pre.isPlaying
          /\ absoluteTime = pre.absoluteTime
    /\ (~pre.isPlaying /\ lastOp.op \notin setters) => absoluteTime = pre.absoluteTime

\* C20 as stated: from the moment playback stops until it is resumed no frame callback
\* runs, and the cursor keeps its value unless it is set by a scrub, a day selection
\* or a load; resuming continues from that value.
C20_PausedCursorSetOnlyByScrubDayLoad == PausedKeepsCursor(ScrubDayOrLoad)

\* C20: from the moment playback stops until it is resumed no frame callback runs, and
\* the cursor keeps its value unless it is set by a scrub, a day selection, a load or
\* the clamp of a day-count decrease (line 662); resuming continues from that value.
C20_PausedCursorSetOnlyExplicitly ==
    PausedKeepsCursor(ScrubDayOrLoad \cup {"handleTotalDaysChange"})

\* paused after a frame had advanced the cursor: no frame is due, the cursor is kept
C20_Witness ==
    /\ lastOp.op = "togglePlay"
    /\ pre.isPlaying
    /\ ~isPlaying
    /\ ~animationFrame
    /\ absoluteTime > 0
    /\ absoluteTime = pre.absoluteTime

\* the buffer of the last portWriter.write call
frame == writes[Len(writes)].buffer

\* the byte at offset k (0-based) of the frame
ByteAt(k) == frame[k + 1]

\* the cells of the grid passed in that have a place in the frame
PlacedCells == 0..(IF Len(pre.currentGrid) < gridSize * gridSize
                   THEN Len(pre.currentGrid) ELSE gridSize * gridSize) - 1

\* the channel values of cell i of the grid passed in, as sent: 0 when inactive
Sent(i) ==
    LET cell == pre.currentGrid[i + 1]
    IN  IF cell.active THEN <<cell.r, cell.g, cell.b>> ELSE <<0, 0, 0>>

\* C21: the frame of every grid and grid size has length 2 + 3 * gridSize^2 + 1, starts
\* with 0xAB and the grid size, ends with 0xBA, and holds the bytes of cell i at offsets
\* 2 + 3i, 3 + 3i, 4 + 3i in R, G, B order, also for a grid of more or fewer than
\* gridSize^2 cells.
C21_FrameLayout ==
    lastOp.op = "sendGridToArduino" =>
        /\ Len(frame) = 2 + 3 * gridSize * gridSize + 1
        /\ ByteAt(0) = FrameStart
        /\ ByteAt(1) = gridSize
        /\ ByteAt(Len(frame) - 1) = FrameEnd
        /\ \A i \in PlacedCells : \A ch \in 0..2 :
              ByteAt(2 + 3 * i + ch) = ToUint8(ScaleRound(Sent(i)[ch + 1], masterBrightness))

\* a grid of more cells than the frame has places for, its cells lit in three colours
C21_Witness ==
    /\ lastOp.op = "sendGridToArduino"
    /\ Len(pre.currentGrid) > gridSize * gridSize
    /\ masterBrightness = 100
    /\ pre.currentGrid[1] = ColourCell
    /\ <<ByteAt(2), ByteAt(3), ByteAt(4)>> = <<200, 100, 50>>

\* C22: each encoded cell whose channels are bytes is round(r * masterBrightness / 100),
\* round(g * masterBrightness / 100), round(b * masterBrightness / 100) when active and
\* 0, 0, 0 when inactive, at every brightness; four cells 200, 100, 50 at grid size 2
\* and brightness 50 give 0xAB, 2, four times 100, 50, 25, and 0xBA.
C22_CellBytesAreScaledAndRounded ==
    lastOp.op = "sendGridToArduino" =>
        /\ \A i \in PlacedCells : \A ch \in 0..2 :
              Sent(i)[ch + 1] \in 0..255 =>
                 ByteAt(2 + 3 * i + ch) = RoundDiv(Sent(i)[ch + 1] * masterBrightness, 100)
        /\ (/\ gridSize = 2
            /\ masterBrightness = 50
            /\ pre.currentGrid = UniformGrid(4, ColourCell))
              => frame = <<171, 2, 100, 50, 25, 100, 50, 25, 100, 50, 25, 100, 50, 25, 186>>

\* the nearest byte to n
ClampByte(n) == IF n < 0 THEN 0 ELSE IF n > 255 THEN 255 ELSE n

\* C23: every colour value written into the frame is clamped to a byte: a value that
\* scales to more than 255 is written as 255 and one that scales to less than 0 as 0.
C23_BytesAreClamped ==
    lastOp.op = "sendGridToArduino" =>
        \A i \in PlacedCells : \A ch \in 0..2 :
           ByteAt(2 + 3 * i + ch) = ClampByte(ScaleRound(Sent(i)[ch + 1], masterBrightness))

\* C25: no two writes to one writer are in flight at once: whenever portWriter.write is
\* called, every earlier write of that writer has settled.
C25_OneWriteInFlight ==
    \A i \in 1..Len(writes) : \A j \in 1..Len(writes) :
        writes[i].writer = writes[j].writer => i = j

WithoutIds(kfs) == [i \in 1..Len(kfs) |-> [kfs[i] EXCEPT !.id = 0]]

\* C26: when a generation request succeeds with a non-empty array, the array sorted by
\* time replaces the keyframes of the selected day and of no other day, the cursor is
\* at selectedDay * CYCLE_DURATION + the time of the first keyframe of the sorted array
\* and selectedKeyframe is 0, whatever the user did between the request and the response.
C26_GeneratedPatternReplacesSelectedDay ==
    (lastOp.op = "generatePatternSettled" /\ lastOp.tag = "ok") =>
        /\ failure = "none"
        /\ SameKeyframes(WithoutIds(PostKeyframes),
                         WithoutIds(GeneratedKeyframes("ok", pre.aiClosure.gridSize)))
        /\ IsSortedByTime(PostKeyframes)
        /\ Len(keyframesByDay) = Len(pre.keyframesByDay)
        /\ OtherDaysUnchanged
        /\ selectedKeyframe = 0
        /\ selectedDay = pre.selectedDay
        /\ absoluteTime = (selectedDay * CYCLE_DURATION + PostKeyframes[1].time) * Sub

\* C27: a generation request that fails (rejected call, unparsable response, response
\* that is not an array, empty array) leaves the schedule, the selection and the cursor
\* as they were, raises an alert and ends with isGenerating false; isGenerating is true
\* exactly while a request is outstanding, and false after every response.
C27_FailedGenerationChangesNothing ==
    /\ (lastOp.op = "generatePatternSettled" /\ lastOp.tag # "ok") =>
          /\ alerted
          /\ failure = "none"
          /\ keyframesByDay = pre.keyframesByDay
          /\ totalDays = pre.totalDays
          /\ gridSize = pre.gridSize
          /\ selectedDay = pre.selectedDay
          /\ selectedKeyframe = pre.selectedKeyframe
          /\ absoluteTime = pre.absoluteTime
    /\ lastOp.op = "generatePatternSettled" => pre.isGenerating /\ ~isGenerating
    /\ lastOp.op = "handleGeneratePattern" => ~pre.isGenerating /\ isGenerating
    /\ isGenerating <=> aiClosure # NoClosure

\* a response that is not an array arrived after the user had selected another day
C27_Witness ==
    /\ lastOp.op = "generatePatternSettled"
    /\ lastOp.tag = "notArray"
    /\ alerted
    /\ ~isGenerating
    /\ selectedDay # 0

\* C28: loading a malformed recipe (text that is not JSON, a document with neither
\* keyframesByDay nor keyframes, a keyframe without a grid) surfaces an error and
\* leaves keyframesByDay, totalDays and gridSize as they were.
C28_MalformedRecipeIsRejected ==
    (lastOp.op = "loadRecipe" /\ lastOp.tag \in {"unparsable", "neither", "gridless"}) =>
        /\ alerted
        /\ failure = "none"
        /\ keyframesByDay = pre.keyframesByDay
        /\ totalDays = pre.totalDays
        /\ gridSize = pre.gridSize

\* the total of a channel over the active cells of the grid
RECURSIVE ActiveTotal(_, _)
ActiveTotal(grid, ch) ==
    IF grid = <<>> THEN 0
    ELSE (IF Head(grid).active THEN Head(grid)[ch] ELSE 0) + ActiveTotal(Tail(grid), ch)

\* the number of active cells of the grid
ActiveCount(grid) == Cardinality({i \in 1..Len(grid) : grid[i].active})

\* the class of the averages r / n, g / n, b / n over n > 0 active cells: a dominant
\* channel exceeds 1.3 times each other one; full spectrum has the three pairwise
\* within 25 and all above 200
SpectrumOf(r, g, b, n) ==
    LET dominates(x, y, z) == 10 * x > 13 * y /\ 10 * x > 13 * z
        near(x, y) == x - y < 25 * n /\ y - x < 25 * n
    IN  IF dominates(r, g, b) THEN "Red Dominant"
        ELSE IF dominates(g, r, b) THEN "Green Dominant"
        ELSE IF dominates(b, r, g) THEN "Blue Dominant"
        ELSE IF /\ near(r, g) /\ near(r, b) /\ near(g, b)
                /\ r > 200 * n /\ g > 200 * n /\ b > 200 * n
        THEN "Full Spectrum"
        ELSE "Balanced"

\* C29: the analysis averages over the active cells only; it is "Off" with averages
\* 0 when no cell is active, names a channel dominant when its average exceeds 1.3
\* times each of the other two, else is "Full Spectrum" exactly when the three
\* averages are pairwise within 25 and all above 200, else "Balanced"; computing it
\* changes neither the grid nor the store.
C29_SpectralClassification ==
    lastOp.op = "liveAnalysis" =>
        LET n == ActiveCount(currentGrid)
            r == ActiveTotal(currentGrid, "r")
            g == ActiveTotal(currentGrid, "g")
            b == ActiveTotal(currentGrid, "b")
            analysis == liveAnalysis(currentGrid)
        IN  /\ lastOp.tag = analysis.dominantSpectrum
            /\ IF n = 0
               THEN /\ analysis.dominantSpectrum = "Off"
                    /\ analysis.avgR = Average(0, 1)
                    /\ analysis.avgG = Average(0, 1)
                    /\ analysis.avgB = Average(0, 1)
               ELSE /\ analysis.dominantSpectrum = SpectrumOf(r, g, b, n)
                    /\ analysis.avgR = Average(r, n)
                    /\ analysis.avgG = Average(g, n)
                    /\ analysis.avgB = Average(b, n)
            /\ currentGrid = pre.currentGrid
            /\ keyframesByDay = pre.keyframesByDay
            /\ totalDays = pre.totalDays
            /\ gridSize = pre.gridSize
            /\ absoluteTime = pre.absoluteTime

\* C30: in every state in which the component is mounted and its effects have run,
\* currentGrid is the sampler's output for keyframesByDay[currentDay], currentTime and
\* gridSize, with currentDay and currentTime derived from absoluteTime and totalDays.
C30_GridIsSampledFromStore ==
    failure # "render" =>
        currentGrid = UpdateGridFromTimeline(gridSize, keyframesByDay,
                                             CurrentTime(absoluteTime),
                                             CurrentDay(absoluteTime, totalDays))

\* a cell was painted in the keyframe under the cursor and the resolved grid followed
C30_Witness ==
    /\ lastOp.op = "handleCellClick"
    /\ failure = "none"
    /\ keyframesByDay # pre.keyframesByDay
    /\ absoluteTime = pre.absoluteTime
    /\ currentGrid # pre.currentGrid

\* C31: the button of day d (0 <= d < totalDays) sets selectedDay to d and the cursor to
\* the start of day d, so that currentDay = d and currentTime = 0, whether paused or
\* playing; a scrub sets the cursor to the chosen minute in either state, and a tick
\* advances from the cursor it finds.
C31_DaySelectAndScrubSetCursor ==
    /\ lastOp.op = "selectDay" =>
          /\ lastOp.a \in 0..(pre.totalDays - 1)
          /\ selectedDay = lastOp.a
          /\ absoluteTime = lastOp.a * CYCLE_DURATION * Sub
          /\ currentDay = lastOp.a
          /\ currentTime = 0
          /\ isPlaying = pre.isPlaying
    /\ lastOp.op = "scrub" =>
          /\ absoluteTime = lastOp.a * Sub
          /\ isPlaying = pre.isPlaying
    /\ lastOp.op = "animate" =>
          absoluteTime = (pre.absoluteTime + lastOp.a) % (CYCLE_DURATION * totalDays * Sub)

\* a later day was selected during playback, with the cursor inside another day
C31_Witness ==
    /\ lastOp.op = "selectDay"
    /\ lastOp.a > 0
    /\ isPlaying
    /\ animationFrame
    /\ pre.absoluteTime % (CYCLE_DURATION * Sub) # 0
    /\ currentDay = lastOp.a
    /\ currentTime = 0

\* C32: the streaming effect sends at most one frame per commit, only when more than
\* 50 ms have passed since the frame it sent last, and only while connectionStatus is
\* 'connected' and a writer exists; a grid change within 50 ms of the last frame is
\* not sent.
C32_FramesAreRateLimited ==
    LET sent == lastOp.op # "writeSettled" /\ Len(writes) > Len(pre.writes)
    IN  /\ lastUpdateTime <= now
        /\ sent =>
              /\ Len(writes) = Len(pre.writes) + 1
              /\ now - pre.lastUpdateTime > Throttle
              /\ lastUpdateTime = now
              /\ connectionStatus = "connected"
              /\ portWriter # NoWriter
              /\ writes[Len(writes)].writer = portWriter
        /\ ~sent => lastUpdateTime = pre.lastUpdateTime
        /\ (lastOp.op # "writeSettled" /\ now - pre.lastUpdateTime <= Throttle) =>
              writes = pre.writes

\* the cursor moved within 50 ms of the last frame and the new grid was not sent
C32_Witness ==
    /\ lastOp.op = "scrub"
    /\ connectionStatus = "connected"
    /\ portWriter # NoWriter
    /\ currentGrid # pre.currentGrid
    /\ lastUpdateTime >= 0
    /\ now - lastUpdateTime <= Throttle
    /\ writes = pre.writes

\* the band of the day of a time in 1/Sub minutes, with hour = time / 60
BandOf(time) ==
    IF 6 * 60 * Sub <= time /\ time < 12 * 60 * Sub THEN "morning"
    ELSE IF 12 * 60 * Sub <= time /\ time < 18 * 60 * Sub THEN "midday"
    ELSE IF 18 * 60 * Sub <= time /\ time < 22 * 60 * Sub THEN "evening"
    ELSE "night"

\* the amount a band adds to a channel whose program has the band enabled
BandAmount(band) ==
    IF band \in {"morning", "midday"} THEN 50 ELSE IF band = "evening" THEN 30 ELSE 10

\* the boost of a channel: that of the band of the time when the channel's program
\* has it enabled, and 0 otherwise
BoostOfBand(program, time) ==
    IF program[BandOf(time)] THEN BandAmount(BandOf(time)) ELSE 0

\* C33: in the single-day variant every channel of every cell of the resolved grid is
\* min(255, c + boost), with c the interpolated channel and boost that of the
\* channel's own program in the band of the hour (50, 50, 30, 10 for morning, midday,
\* evening, night; 0 when the band is not enabled); the active flag is the
\* interpolated one.
C33_ScheduledBoosts ==
    (lastOp.op = "singleDayUpdateGridFromTimeline"
     /\ Len(DayKeyframes(keyframesByDay, 0)) > 0) =>
        LET initialGrid == UpdateGridFromTimeline(gridSize, keyframesByDay, currentTime, 0)
            capped(n) == IF n > 255 THEN 255 ELSE n
        IN  /\ Len(currentGrid) = Len(initialGrid)
            /\ \A i \in 1..Len(currentGrid) :
                  /\ currentGrid[i].r
                         = capped(initialGrid[i].r + BoostOfBand(redProgram, currentTime))
                  /\ currentGrid[i].g
                         = capped(initialGrid[i].g + BoostOfBand(greenProgram, currentTime))
                  /\ currentGrid[i].b
                         = capped(initialGrid[i].b + BoostOfBand(blueProgram, currentTime))
                  /\ currentGrid[i].active = initialGrid[i].active

\* at 6 hours red is boosted to the cap, green is boosted by 50 and blue, whose
\* program has the morning disabled, is not boosted
C33_Witness ==
    /\ lastOp.op = "singleDayUpdateGridFromTimeline"
    /\ currentTime = 360 * Sub
    /\ redProgram.morning
    /\ greenProgram.morning
    /\ ~blueProgram.morning
    /\ Len(currentGrid) = 1
    /\ currentGrid[1].r = 255
    /\ currentGrid[1].g = BoostCell.g + 50
    /\ currentGrid[1].b = BoostCell.b

\* the last operation was deleteKeyframe, updateKeyframeTime or updateKeyframeName
IdBasedEdit == lastOp.op \in {"deleteKeyframe", "updateKeyframeTime", "updateKeyframeName"}

\* a day other than the selected one holds a keyframe with the id the last operation
\* was given
IdSharedWithOtherDay ==
    \E d \in 1..Len(pre.keyframesByDay) :
        /\ d # pre.selectedDay + 1
        /\ \E i \in 1..Len(DayKeyframes(pre.keyframesByDay, d - 1)) :
              DayKeyframes(pre.keyframesByDay, d - 1)[i].id = lastOp.a

\* C34: deleteKeyframe, updateKeyframeTime and updateKeyframeName with id x change the
\* keyframes of the selected day only; every other day reads as before, also when it
\* holds a keyframe with the same id x.
C34_IdEditsAreScopedToSelectedDay ==
    (IdBasedEdit /\ failure = "none") => OtherDaysUnchanged

\* the time of a keyframe whose id every day shares was changed in the selected day
C34_Witness ==
    /\ lastOp.op = "updateKeyframeTime"
    /\ failure = "none"
    /\ IdSharedWithOtherDay
    /\ PostKeyframes # PreKeyframes
    /\ OtherDaysUnchanged

\* n lies between a and b, in either order
Between(n, a, b) == (a <= n /\ n <= b) \/ (b <= n /\ n <= a)

\* C35: for a non-empty day list with times in [0, CYCLE_DURATION) and a query time in
\* [0, CYCLE_DURATION) the sampler's factor is at least 0 and below 1, every sampled
\* channel lies between the channels of prev and next, and it is in 0..255 when the
\* stored channels are.
C35_FactorIsInUnitInterval ==
    (Sampled /\ SampledList # <<>>) =>
        LET s == SampledSorted
            br == FindBracket(s, SampledTime)
            f == Factor(s[br[1]], s[br[2]], SampledTime)
        IN  /\ f[2] > 0
            /\ 0 <= f[1]
            /\ f[1] < f[2]
            /\ \A i \in DOMAIN currentGrid :
                  LET p == StoredCell(s[br[1]].grid, i)
                      n == StoredCell(s[br[2]].grid, i)
                  IN  /\ Between(currentGrid[i].r, p.r, n.r)
                      /\ Between(currentGrid[i].g, p.g, n.g)
                      /\ Between(currentGrid[i].b, p.b, n.b)
                      /\ currentGrid[i].r \in 0..255
                      /\ currentGrid[i].g \in 0..255
                      /\ currentGrid[i].b \in 0..255

\* a query before the first keyframe of the day: the pair is (last, first), the
\* progress wraps around midnight and the channel is strictly between the two
C35_Witness ==
    /\ Sampled
    /\ Len(SampledList) = 2
    /\ SampledSorted[1].time = 360
    /\ SampledSorted[2].time = 720
    /\ SampledSorted[1].grid = <<BlackCell>>
    /\ SampledSorted[2].grid = <<WhiteCell, WhiteCell, WhiteCell, WhiteCell>>
    /\ SampledTime = 180 * Sub + 1
    /\ gridSize = 1
    /\ currentGrid[1].r > 0
    /\ currentGrid[1].r < 255

\* C36: in every reachable state connectionStatus is 'connected' exactly when
\* portWriter is not null, for every interleaving of handleConnect, handleDisconnect,
\* write failures and the timeout armed by a failed attempt to connect.
C36_ConnectedIffWriter ==
    connectionStatus = "connected" <=> portWriter # NoWriter

\* the selection designated a keyframe of the selected day when the last operation
\* was invoked
SelectionWasValid == pre.selectedKeyframe \in 0..(Len(PreKeyframes) - 1)

\* the id of the keyframe the selection designated before the last operation
PreSelectedId == PreKeyframes[pre.selectedKeyframe + 1].id

\* the selection designates a keyframe of the day with the given id
SelectionDesignates(id) ==
    /\ selectedKeyframe \in 0..(Len(PostKeyframes) - 1)
    /\ PostKeyframes[selectedKeyframe + 1].id = id

\* C37: after addKeyframe the selection designates the new keyframe; after
\* updateKeyframeTime, and after a deleteKeyframe of another keyframe, it designates
\* the keyframe with the same id as before.
C37_SelectionFollowsIdentity ==
    /\ (lastOp.op = "addKeyframe" /\ failure = "none") => SelectionDesignates(lastOp.a)
    /\ (lastOp.op = "updateKeyframeTime" /\ failure = "none" /\ SelectionWasValid) =>
          SelectionDesignates(PreSelectedId)
    /\ (/\ lastOp.op = "deleteKeyframe"
        /\ failure = "none"
        /\ SelectionWasValid
        /\ PreSelectedId # lastOp.a) =>
          SelectionDesignates(PreSelectedId)

====
